---- MODULE Spec2Model ----
(***************************************************************************)
(* A model of const_irc_message_parser: the message assembler              *)
(* (IrcMsg::parse), and the Tags, Source, Command and Parameters parsers   *)
(* with their extraction-by-index operations, and the IrcFmtByte,          *)
(* IrcCaseMapping and ISupportToken helpers.  Byte slices are sequences    *)
(* of integers 0..255; a Rust index i is position i + 1 of the sequence.   *)
(* A panic (index or split_at out of bounds, unreachable!) is modelled as  *)
(* a result of kind "Panic".                                               *)
(***************************************************************************)
EXTENDS Integers, Sequences, FiniteSets, TLC

VARIABLES input, pc, parsed, target, extracted, rendered, reparsed, utf8_only,
          stripped

vars == <<input, pc, parsed, target, extracted, rendered, reparsed, utf8_only, stripped>>

(***************************************************************************)
(* Bytes named by the source.                                              *)
(***************************************************************************)
NUL == 0
LF == 10
CR == 13
SP == 32
BANG == 33
DOLLAR == 36
STAR == 42
PLUS == 43
COMMA == 44
DOT == 46
SLASH == 47
COLON == 58
SEMICOLON == 59
EQUALS == 61
AT == 64
LBRACKET == 91
RBRACKET == 93

\* A byte that is never part of valid UTF-8 (the tests use 159, 146, 150).
NonUtf8Byte == 159
Digit0 == 48

\* ASCII letters and digits, written as one-character strings, as bytes.
UpperCase == <<"A", "B", "C", "D", "E", "F", "G", "H", "I", "J", "K", "L", "M",
               "N", "O", "P", "Q", "R", "S", "T", "U", "V", "W", "X", "Y", "Z">>
LowerCase == <<"a", "b", "c", "d", "e", "f", "g", "h", "i", "j", "k", "l", "m",
               "n", "o", "p", "q", "r", "s", "t", "u", "v", "w", "x", "y", "z">>
Digits == <<"0", "1", "2", "3", "4", "5", "6", "7", "8", "9">>

Ord(c) ==
    IF \E i \in 1..26 : UpperCase[i] = c
    THEN 64 + (CHOOSE i \in 1..26 : UpperCase[i] = c)
    ELSE IF \E i \in 1..26 : LowerCase[i] = c
    THEN 96 + (CHOOSE i \in 1..26 : LowerCase[i] = c)
    ELSE 47 + (CHOOSE i \in 1..10 : Digits[i] = c)

\* The byte string spelled by a tuple of one-character strings.
Bytes(chars) == [i \in 1..Len(chars) |-> Ord(chars[i])]

(***************************************************************************)
(* Slices.                                                                 *)
(***************************************************************************)
\* The two halves of slice::split_at(n), for n <= Len(s).
SplitLeft(s, n) == SubSeq(s, 1, n)
SplitRight(s, n) == SubSeq(s, n + 1, Len(s))

\* All byte sequences over alphabet A of length at most n.
SeqsUpTo(A, n) == UNION {[1..k -> A] : k \in 0..n}

\* The offsets (0-based) at which byte b occurs in s.
Offsets(s, b) == {i \in 0..(Len(s) - 1) : s[i + 1] = b}

Min(S) == CHOOSE x \in S : \A y \in S : x <= y

(***************************************************************************)
(* core::str::from_utf8, as the validity test it is used for.              *)
(***************************************************************************)
IsContinuation(b) == b >= 128 /\ b <= 191

RECURSIVE Utf8From(_, _)
Utf8From(s, i) ==
    IF i > Len(s) THEN TRUE
    ELSE LET b == s[i] IN
        IF b < 128 THEN Utf8From(s, i + 1)
        ELSE IF b >= 194 /\ b <= 223
            THEN i + 1 <= Len(s) /\ IsContinuation(s[i + 1]) /\ Utf8From(s, i + 2)
        ELSE IF b >= 224 /\ b <= 239
            THEN /\ i + 2 <= Len(s)
                 /\ IsContinuation(s[i + 1]) /\ IsContinuation(s[i + 2])
                 /\ (b = 224 => s[i + 1] >= 160)
                 /\ (b = 237 => s[i + 1] <= 159)
                 /\ Utf8From(s, i + 3)
        ELSE IF b >= 240 /\ b <= 244
            THEN /\ i + 3 <= Len(s)
                 /\ IsContinuation(s[i + 1]) /\ IsContinuation(s[i + 2])
                 /\ IsContinuation(s[i + 3])
                 /\ (b = 240 => s[i + 1] >= 144)
                 /\ (b = 244 => s[i + 1] <= 143)
                 /\ Utf8From(s, i + 4)
        ELSE FALSE

IsUtf8(s) == Utf8From(s, 1)

\* ContentType::new: StringSlice when the bytes are valid UTF-8, else NonUtf8ByteSlice.
ContentTypeNew(bytes) == [utf8 |-> IsUtf8(bytes), bytes |-> bytes]

\* Decimal digits of n as ASCII bytes.
RECURSIVE DecimalBytes(_)
DecimalBytes(n) ==
    IF n < 10 THEN <<Digit0 + n>>
    ELSE DecimalBytes(n \div 10) \o <<Digit0 + (n % 10)>>

\* The Debug form of a byte slice: "[159, 146, 150]".
RECURSIVE DebugItems(_)
DebugItems(s) ==
    IF Len(s) = 0 THEN <<>>
    ELSE IF Len(s) = 1 THEN DecimalBytes(s[1])
    ELSE DecimalBytes(s[1]) \o <<COMMA, SP>> \o DebugItems(Tail(s))

DebugBytes(s) == <<LBRACKET>> \o DebugItems(s) \o <<RBRACKET>>

\* impl Display for ContentType.
DisplayContentType(c) == IF c.utf8 THEN c.bytes ELSE DebugBytes(c.bytes)

NoContent == ContentTypeNew(<<>>)

(***************************************************************************)
(* Parameters (parameters.rs).                                             *)
(***************************************************************************)
ParametersNone == [kind |-> "None", amount |-> 0, content |-> NoContent, byte |-> 0]
ParametersSome(amount, bytes) ==
    [kind |-> "Some", amount |-> amount, content |-> ContentTypeNew(bytes), byte |-> 0]
ParametersErr(b) == [kind |-> "InvalidByte", amount |-> 0, content |-> NoContent, byte |-> b]

\* The counting loop of Parameters::parse from offset index on.
RECURSIVE ParametersScan(_, _, _, _, _)
ParametersScan(in, index, amount, previous_char, trailing_parameter) ==
    IF index >= Len(in) THEN ParametersSome(amount, in)
    ELSE LET b == in[index + 1] IN
        IF b = NUL \/ b = CR \/ b = LF THEN ParametersErr(b)
        ELSE IF (previous_char = SP \/ index = 0) /\ b = COLON
            THEN ParametersScan(in, index + 1, amount, b, TRUE)
        ELSE IF ~trailing_parameter /\ b = SP
            THEN ParametersScan(in, index + 1, amount + 1, b, trailing_parameter)
        ELSE ParametersScan(in, index + 1, amount, b, trailing_parameter)

\* Parameters::parse with the count started at 0 instead of 1.
ParametersParseCountFromZero(in) ==
    IF Len(in) = 0 THEN ParametersNone
    ELSE ParametersScan(in, 0, 0, NUL, FALSE)

ParametersParse(in) ==
    IF Len(in) = 0 THEN ParametersNone
    ELSE ParametersScan(in, 0, 1, NUL, FALSE)

ExtractNone == [kind |-> "None", content |-> NoContent]
ExtractPanic == [kind |-> "Panic", content |-> NoContent]
ExtractSome(bytes) == [kind |-> "Some", content |-> ContentTypeNew(bytes)]

\* The walking loop of Parameters::extract_specific; st holds the loop's variables.
RECURSIVE ParametersWalk(_, _, _)
ParametersWalk(bytes, target_index, st) ==
    IF st.index >= Len(bytes) THEN st
    ELSE LET b == bytes[st.index + 1]
             starts == target_index = st.current_param - 1 /\ ~st.param_started
             s1 == IF starts
                   THEN [st EXCEPT !.param_started = TRUE, !.param_start = st.index]
                   ELSE st
             s2 == IF b = SP /\ ~s1.last_param
                   THEN [s1 EXCEPT !.current_param = s1.current_param + 1]
                   ELSE IF b = COLON /\ (s1.previous_byte = SP \/ s1.index = 0)
                   THEN [s1 EXCEPT !.last_param = TRUE]
                   ELSE s1
         IN IF s2.param_started /\ s2.current_param = target_index + 2
            THEN [s2 EXCEPT !.param_end = s2.index]
            ELSE ParametersWalk(bytes, target_index,
                    [s2 EXCEPT !.previous_byte = b, !.param_end = s2.index,
                               !.index = s2.index + 1])

ParametersExtractSpecific(p, target_index) ==
    IF target_index > p.amount THEN ExtractNone
    ELSE LET bytes == p.content.bytes
             st == ParametersWalk(bytes, target_index,
                     [index |-> 0, current_param |-> 1, param_started |-> FALSE,
                      param_start |-> 0, param_end |-> 0, last_param |-> FALSE,
                      previous_byte |-> NUL])
             rest == SplitRight(bytes, st.param_start)
             param_end == st.param_end - st.param_start
             param == IF st.last_param THEN rest ELSE SplitLeft(rest, param_end)
         IN IF st.param_start > Len(bytes) \/ param_end < 0 THEN ExtractPanic
            ELSE IF ~st.last_param /\ param_end > Len(rest) THEN ExtractPanic
            ELSE IF Len(param) = 0 THEN ExtractPanic
            ELSE IF param[1] = COLON THEN ExtractSome(Tail(param))
            ELSE ExtractSome(param)

\* Parameters::extract_first and Parameters::extract_last.
ParametersExtractFirst(p) ==
    LET r == ParametersExtractSpecific(p, 0)
    IN IF r.kind = "None" THEN ExtractPanic ELSE r

ParametersExtractLast(p) ==
    IF p.amount = 0 THEN ExtractPanic
    ELSE LET r == ParametersExtractSpecific(p, p.amount - 1)
         IN IF r.kind = "None" THEN ExtractPanic ELSE r

(***************************************************************************)
(* Tags (tags.rs).                                                         *)
(***************************************************************************)
MaxTagBytes == 8190

TagsOk(amount, content) ==
    [kind |-> "Ok", err |-> "", byte |-> 0, amount |-> amount, content |-> content]
TagsErr(err, byte) ==
    [kind |-> "Err", err |-> err, byte |-> byte, amount |-> 0, content |-> <<>>]

\* is_invalid_escaped_value_byte
IsInvalidEscapedValueByte(b) == b \in {0, 10, 13, 32}

\* The counting loop of Tags::parse from offset index on.
RECURSIVE TagsScan(_, _, _, _, _)
TagsScan(in, index, amount, escaped_value_started, previous_semicolon) ==
    IF index >= Len(in) THEN TagsOk(amount, in)
    ELSE LET b == in[index + 1]
             end_of_tags == Len(in) - 1
         IN IF b = SEMICOLON \/ index = end_of_tags
            THEN IF previous_semicolon THEN TagsErr("EmptyKeyName", 0)
                 ELSE TagsScan(in, index + 1, amount + 1, FALSE, TRUE)
            ELSE IF b = EQUALS /\ ~escaped_value_started
            THEN TagsScan(in, index + 1, amount, TRUE, FALSE)
            ELSE IF escaped_value_started /\ IsInvalidEscapedValueByte(b)
            THEN TagsErr("InvalidEscapedValueByte", b)
            ELSE TagsScan(in, index + 1, amount, escaped_value_started, FALSE)

TagsParse(in) ==
    IF Len(in) = 0 THEN TagsErr("EmptyInput", 0)
    ELSE IF Len(in) > MaxTagBytes THEN TagsErr("TagBytesExceededBy", Len(in) - MaxTagBytes)
    ELSE IF in[1] # AT THEN TagsErr("InvalidStartingPrefix", in[1])
    ELSE IF Len(in) = 1 THEN TagsErr("NoTags", 0)
    ELSE IF ~IsUtf8(in) THEN TagsErr("NotUtf8", 0)
    ELSE TagsScan(in, 0, 0, FALSE, TRUE)

\* Option<&str>
StrNone == [some |-> FALSE, bytes |-> <<>>]
StrSome(bytes) == [some |-> TRUE, bytes |-> bytes]

\* Tag, as the result of extract_specific: kind is "Some", "None" or "Panic".
TagResult(kind, client_prefix, vendor, key_name, escaped_value) ==
    [kind |-> kind, client_prefix |-> client_prefix, vendor |-> vendor,
     key_name |-> key_name, escaped_value |-> escaped_value]
TagNone == TagResult("None", FALSE, StrNone, <<>>, StrNone)
TagPanic == TagResult("Panic", FALSE, StrNone, <<>>, StrNone)

\* split_at(n) panics unless 0 <= n <= len.
CanSplit(s, n) == n >= 0 /\ n <= Len(s)

\* The '/' arm of Tags::extract_specific: the vendor ends here.
TagsVendorArm(bytes, st) ==
    LET start == IF st.client_prefix THEN st.current_tag_start + 1
                 ELSE st.current_tag_start
        from_start == SplitRight(bytes, start)
        n == st.index - start
        copy == SplitLeft(from_start, n)
    IN IF ~CanSplit(bytes, start) \/ ~CanSplit(from_start, n) \/ ~CanSplit(bytes, st.index + 1)
       THEN [st EXCEPT !.panic = TRUE]
       ELSE [st EXCEPT !.vendor = IF IsUtf8(copy) THEN StrSome(copy) ELSE st.vendor,
                       !.copy = SplitRight(bytes, st.index + 1),
                       !.offset = st.index + 1,
                       !.key_name_start = st.index + 1]

\* The '=' arm: the key name ends here and the escaped value starts.
TagsEqualsArm(bytes, st) ==
    LET from_start == IF st.vendor.some THEN st.copy
                      ELSE SplitRight(bytes, st.current_tag_start)
        n == IF st.vendor.some THEN st.index - st.offset ELSE st.index - 1
        copy == SplitLeft(from_start, n)
        named == [st EXCEPT !.copy = copy,
                            !.key_name = IF IsUtf8(copy) THEN copy ELSE st.key_name]
    IN IF (~st.vendor.some /\ ~CanSplit(bytes, st.current_tag_start))
            \/ ~CanSplit(from_start, n)
       THEN [st EXCEPT !.panic = TRUE]
       ELSE IF st.index + 1 = Len(bytes) - 1 THEN [named EXCEPT !.done = TRUE]
       ELSE [named EXCEPT !.offset = st.index + 1]

\* The ';' or end-of-span arm: the tag ends here.
TagsEndArm(bytes, st) ==
    LET start == IF st.key_name # <<>> THEN st.offset
                 ELSE IF st.vendor.some THEN st.key_name_start
                 ELSE st.current_tag_start
        from_start == SplitRight(bytes, start)
        at_end == st.index = Len(bytes) - 1
        n == st.index - start
        copy == IF at_end THEN from_start ELSE SplitLeft(from_start, n)
    IN IF ~CanSplit(bytes, start) \/ (~at_end /\ ~CanSplit(from_start, n))
       THEN [st EXCEPT !.panic = TRUE]
       ELSE IF st.key_name # <<>>
       THEN [st EXCEPT !.copy = copy, !.done = TRUE,
                       !.escaped_value = IF IsUtf8(copy) THEN StrSome(copy)
                                         ELSE st.escaped_value]
       ELSE [st EXCEPT !.copy = copy, !.done = TRUE,
                       !.key_name = IF IsUtf8(copy) THEN copy ELSE st.key_name]

\* One pass through the body of the loop of Tags::extract_specific.
TagsArm(bytes, target_index, st) ==
    LET b == bytes[st.index + 1]
    IN IF st.current_tag = target_index
       THEN IF b = PLUS THEN [st EXCEPT !.client_prefix = TRUE]
            ELSE IF b = SLASH THEN TagsVendorArm(bytes, st)
            ELSE IF b = EQUALS THEN TagsEqualsArm(bytes, st)
            ELSE IF b = SEMICOLON \/ st.index = Len(bytes) - 1 THEN TagsEndArm(bytes, st)
            ELSE st
       ELSE IF b = SEMICOLON
       THEN [st EXCEPT !.current_tag = st.current_tag + 1,
                       !.current_tag_start = st.index + 1]
       ELSE st

RECURSIVE TagsWalk(_, _, _)
TagsWalk(bytes, target_index, st) ==
    IF st.index >= Len(bytes) THEN st
    ELSE LET next == TagsArm(bytes, target_index, st)
         IN IF next.done \/ next.panic THEN next
            ELSE TagsWalk(bytes, target_index, [next EXCEPT !.index = next.index + 1])

TagsExtractSpecific(t, target_index) ==
    IF target_index > t.amount THEN TagNone
    ELSE LET st == TagsWalk(t.content, target_index,
                     [index |-> 0, current_tag |-> 0, current_tag_start |-> 1,
                      client_prefix |-> FALSE, vendor |-> StrNone, key_name |-> <<>>,
                      escaped_value |-> StrNone, copy |-> t.content, offset |-> 0,
                      key_name_start |-> 0, done |-> FALSE, panic |-> FALSE])
         IN IF st.panic THEN TagPanic
            ELSE TagResult("Some", st.client_prefix, st.vendor, st.key_name,
                           st.escaped_value)

\* Tags::extract_first and Tags::extract_last.
TagsExtractFirst(t) ==
    LET r == TagsExtractSpecific(t, 0)
    IN IF r.kind = "None" THEN TagPanic ELSE r

TagsExtractLast(t) ==
    IF t.amount = 0 THEN TagPanic
    ELSE LET r == TagsExtractSpecific(t, t.amount - 1)
         IN IF r.kind = "None" THEN TagPanic ELSE r

\* Tag::is_client_only_tag
IsClientOnlyTag(tag) == tag.client_prefix

(***************************************************************************)
(* Source (source.rs).                                                     *)
(***************************************************************************)
\* Option<ContentType>
ContentNone == [some |-> FALSE, content |-> NoContent]
ContentSome(bytes) == [some |-> TRUE, content |-> ContentTypeNew(bytes)]

SourceErr(err, byte) == [kind |-> "Err", err |-> err, byte |-> byte]
SourcePanic == [kind |-> "Panic", err |-> "", byte |-> 0]
Servername(bytes) ==
    [kind |-> "Ok", origin |-> "Servername", content |-> ContentTypeNew(bytes),
     user |-> ContentNone, host |-> ContentNone]
Nickname(nick, user, host) ==
    [kind |-> "Ok", origin |-> "Nickname", content |-> ContentTypeNew(nick),
     user |-> user, host |-> host]

\* is_invalid_byte
IsInvalidSourceByte(b) == b \in {0, 10, 13, 32}
\* is_invalid_nick_starting_byte
IsInvalidNickStartingByte(b) == b \in {36, 58}
\* invalid_nick_byte: the first byte of the nick that a nick may not hold, or -1.
InvalidNickByte(nick) ==
    LET bad == {i \in 1..Len(nick) : nick[i] \in {32, 33, 42, 44, 63, 64}}
    IN IF bad = {} THEN -1 ELSE nick[Min(bad)]

\* The scanning loop of Source::parse; st holds the loop's variables, and
\* st.invalid the first invalid byte met (or -1).
RECURSIVE SourceScan(_, _)
SourceScan(in, st) ==
    IF st.index >= Len(in) THEN st
    ELSE LET b == in[st.index + 1]
             index == st.index
             next == IF b = BANG
                     THEN [st EXCEPT !.user_prefix = TRUE, !.nick_end = index - 1]
                     ELSE IF b = AT /\ st.user_prefix
                     THEN [st EXCEPT !.host_prefix = TRUE,
                                     !.user_end = index - st.nick_end - 2]
                     ELSE IF b = AT /\ ~st.user_prefix
                     THEN [st EXCEPT !.host_prefix = TRUE, !.nick_end = index - 1]
                     ELSE IF b = DOT /\ ~st.user_prefix /\ ~st.host_prefix
                     THEN [st EXCEPT !.probably_servername = TRUE]
                     ELSE st
         IN IF IsInvalidSourceByte(b) THEN [st EXCEPT !.invalid = b]
            ELSE SourceScan(in, [next EXCEPT !.index = index + 1])

\* The checks every nickname arm of Source::parse makes on the nick: the
\* error they return, or SourcePanic when nick[0] does not exist, or "Ok".
NickCheck(nick, empty_byte) ==
    IF Len(nick) = 0 THEN SourceErr("InvalidNickByte", empty_byte)
    ELSE IF IsInvalidNickStartingByte(nick[1])
    THEN SourceErr("InvalidNickStartingByte", nick[1])
    ELSE IF InvalidNickByte(nick) # -1
    THEN SourceErr("InvalidNickByte", InvalidNickByte(nick))
    ELSE [kind |-> "Ok", err |-> "", byte |-> 0]

\* split_first's rest: the slice without its first byte, or itself when empty.
DropFirst(s) == IF Len(s) = 0 THEN s ELSE Tail(s)

\* The arm for a source with '!' and '@'.
SourceUserHostArm(in, st) ==
    LET nick == SplitLeft(in, st.nick_end)
        after_bang == DropFirst(SplitRight(in, st.nick_end))
        u == SplitLeft(after_bang, st.user_end)
        after_at == DropFirst(SplitRight(after_bang, st.user_end))
    IN IF ~CanSplit(in, st.nick_end) THEN SourcePanic
       ELSE IF NickCheck(nick, 33).kind # "Ok" THEN NickCheck(nick, 33)
       ELSE IF ~CanSplit(after_bang, st.user_end) THEN SourcePanic
       ELSE IF Len(u) = 0 THEN SourceErr("InvalidNickByte", 33)
       ELSE IF Len(after_at) = 0 THEN SourceErr("InvalidNickByte", 64)
       ELSE Nickname(nick, ContentSome(u), ContentSome(after_at))

\* The arm for a source with '!' alone.
SourceUserArm(in, st) ==
    LET nick == SplitLeft(in, st.nick_end)
        after_bang == DropFirst(SplitRight(in, st.nick_end))
    IN IF ~CanSplit(in, st.nick_end) THEN SourcePanic
       ELSE IF NickCheck(nick, 33).kind # "Ok" THEN NickCheck(nick, 33)
       ELSE IF Len(after_bang) = 0 THEN SourceErr("InvalidNickByte", 33)
       ELSE Nickname(nick, ContentSome(after_bang), ContentNone)

\* The arm for a source with '@' alone.
SourceHostArm(in, st) ==
    LET nick == SplitLeft(in, st.nick_end)
        after_at == DropFirst(SplitRight(in, st.nick_end))
    IN IF ~CanSplit(in, st.nick_end) THEN SourcePanic
       ELSE IF NickCheck(nick, 64).kind # "Ok" THEN NickCheck(nick, 64)
       ELSE IF Len(after_at) = 0 THEN SourceErr("InvalidNickByte", 64)
       ELSE Nickname(nick, ContentNone, ContentSome(after_at))

\* The arm for a bare nick: input[0] is read without a length check.
SourceNickArm(in) ==
    IF Len(in) = 0 THEN SourcePanic
    ELSE IF IsInvalidNickStartingByte(in[1])
    THEN SourceErr("InvalidNickStartingByte", in[1])
    ELSE IF InvalidNickByte(in) # -1 THEN SourceErr("InvalidNickByte", InvalidNickByte(in))
    ELSE Nickname(in, ContentNone, ContentNone)

\* Source::parse with the nickname decomposition tried before the
\* servername flag.
SourceParseNicknameFirst(in) ==
    IF Len(in) = 0 THEN SourceErr("EmptyInput", 0)
    ELSE IF in[1] # COLON THEN SourceErr("InvalidStartingPrefix", in[1])
    ELSE LET st == SourceScan(in,
                     [index |-> 0, nick_end |-> 0, user_end |-> 0,
                      probably_servername |-> FALSE, user_prefix |-> FALSE,
                      host_prefix |-> FALSE, invalid |-> -1])
             rest == Tail(in)
         IN IF st.invalid # -1 THEN SourceErr("InvalidByte", st.invalid)
            ELSE IF st.nick_end < 0 \/ st.user_end < 0 THEN SourcePanic
            ELSE IF st.user_prefix /\ st.host_prefix THEN SourceUserHostArm(rest, st)
            ELSE IF st.user_prefix THEN SourceUserArm(rest, st)
            ELSE IF st.host_prefix THEN SourceHostArm(rest, st)
            ELSE IF st.probably_servername THEN Servername(rest)
            ELSE SourceNickArm(rest)

SourceParse(in) ==
    IF Len(in) = 0 THEN SourceErr("EmptyInput", 0)
    ELSE IF in[1] # COLON THEN SourceErr("InvalidStartingPrefix", in[1])
    ELSE LET st == SourceScan(in,
                     [index |-> 0, nick_end |-> 0, user_end |-> 0,
                      probably_servername |-> FALSE, user_prefix |-> FALSE,
                      host_prefix |-> FALSE, invalid |-> -1])
             rest == Tail(in)
         IN IF st.invalid # -1 THEN SourceErr("InvalidByte", st.invalid)
            ELSE IF st.nick_end < 0 \/ st.user_end < 0 THEN SourcePanic
            ELSE IF st.probably_servername THEN Servername(rest)
            ELSE IF st.user_prefix /\ st.host_prefix THEN SourceUserHostArm(rest, st)
            ELSE IF st.user_prefix THEN SourceUserArm(rest, st)
            ELSE IF st.host_prefix THEN SourceHostArm(rest, st)
            ELSE SourceNickArm(rest)

\* impl Display for Source, Origin, Servername and Nickname.
DisplaySource(src) ==
    <<COLON>> \o DisplayContentType(src.content)
        \o (IF src.user.some THEN <<BANG>> \o DisplayContentType(src.user.content)
            ELSE <<>>)
        \o (IF src.host.some THEN <<AT>> \o DisplayContentType(src.host.content)
            ELSE <<>>)

(***************************************************************************)
(* Command (command.rs).                                                   *)
(***************************************************************************)
CommandWidth == 12

\* Numerics that need at least 1 parameter (command.rs lines 53 to 258).
NumericMin1 ==
    {6, 7, 8, 9, 14, 15, 16, 17, 30, 31, 32, 42, 50, 51, 210, 217, 220, 222,
     223, 224, 225, 226, 227, 228, 229, 230, 231, 232, 233, 236, 237, 238,
     239, 240, 245, 246, 247, 248, 249, 250, 264, 267, 268, 269, 270, 273,
     274, 275, 277, 278, 280, 283, 284, 285, 286, 287, 288, 289, 290, 291,
     292, 293, 294, 295, 296, 299, 300, 302, 303, 308, 309, 310, 316, 326,
     327, 328, 334, 339, 343, 344, 345, 355, 357, 358, 359, 360, 361, 362,
     363, 373, 377, 380, 383, 384, 385, 386, 387, 388, 389, 398, 399, 419,
     425, 429, 430, 434, 435, 438, 439, 440, 447, 449, 452, 453, 455, 459,
     460, 466, 468, 469, 470, 479, 480, 486, 487, 488, 489, 490, 492, 493,
     494, 495, 496, 497, 498, 499, 500, 504, 505, 512, 513, 514, 515, 516,
     518, 519, 520, 521, 522, 524, 525, 530, 550, 551, 552, 553, 560, 561,
     562, 563, 564, 565, 566, 567, 568, 573, 597, 603, 606, 607, 608, 610,
     611, 612, 613, 615, 616, 617, 618, 619, 620, 621, 622, 623, 624, 625,
     626, 630, 631, 640, 641, 642, 687, 727, 728, 744, 762, 771, 773, 774,
     802, 975, 981, 982, 999}

\* Numerics that need at least 2 parameters (command.rs lines 259 to 371).
NumericMin2 ==
    {1, 2, 3, 5, 18, 20, 105, 203, 221, 242, 251, 255, 256, 257, 258, 259,
     265, 266, 271, 272, 281, 282, 304, 305, 306, 321, 323, 336, 337, 340,
     354, 371, 372, 374, 375, 376, 381, 392, 393, 394, 395, 406, 409, 410,
     411, 412, 417, 420, 422, 424, 431, 436, 445, 446, 448, 451, 456, 462,
     463, 464, 465, 481, 483, 484, 485, 491, 501, 502, 503, 511, 523, 526,
     653, 670, 672, 673, 674, 690, 691, 700, 701, 702, 703, 715, 716, 717,
     720, 721, 722, 730, 731, 732, 733, 740, 741, 750, 759, 764, 765, 767,
     902, 903, 904, 905, 906, 907, 944, 948, 961, 990, 992, 998}

\* Numerics that need at least 3 parameters (command.rs lines 372 to 504).
NumericMin3 ==
    {43, 200, 201, 202, 204, 205, 208, 209, 212, 219, 252, 253, 254, 261,
     263, 276, 301, 307, 313, 315, 318, 319, 320, 324, 325, 329, 331, 332,
     333, 335, 338, 341, 342, 346, 347, 348, 349, 365, 366, 367, 368, 369,
     378, 379, 382, 391, 396, 400, 401, 402, 403, 404, 405, 407, 408, 413,
     414, 415, 416, 421, 423, 432, 433, 437, 442, 444, 457, 458, 461, 467,
     471, 472, 473, 474, 475, 476, 477, 478, 482, 517, 531, 650, 651, 652,
     659, 671, 704, 705, 706, 707, 710, 711, 712, 713, 714, 718, 723, 726,
     761, 766, 768, 769, 801, 901, 908, 910, 911, 926, 937, 938, 939, 940,
     942, 945, 946, 947, 950, 951, 952, 953, 960, 972, 973, 974, 988, 989,
     991, 993, 994, 995, 996, 997}

\* Numerics that need at least 4 parameters (command.rs lines 505 to 527).
NumericMin4 ==
    {10, 235, 262, 312, 322, 330, 350, 351, 353, 364, 441, 443, 569, 729,
     734, 742, 743, 760, 803, 804, 900, 936}

\* Numerics that need at least 5 parameters (command.rs lines 528 to 548).
NumericMin5 ==
    {4, 206, 207, 244, 317, 598, 599, 600, 601, 602, 604, 605, 609, 696, 697,
     698, 724, 725, 941, 954}

\* Numerics that need at least 6 parameters (command.rs lines 549 to 554).
NumericMin6 ==
    {218, 241, 243, 311, 314}

\* Numerics that need at least 7 parameters (command.rs lines 555 to 562).
NumericMin7 ==
    {213, 214, 215, 216, 234, 709, 751}

\* Numerics that need at least 8 parameters (command.rs lines 563 to 566).
NumericMin8 ==
    {211, 352, 708}

\* The named table: the canonical spelling and the minimum parameter count.
NamedTable ==
    {<<Bytes(<<"I", "N", "F", "O">>), 0>>,
     <<Bytes(<<"L", "U", "S", "E", "R", "S">>), 0>>,
     <<Bytes(<<"R", "E", "H", "A", "S", "H">>), 0>>,
     <<Bytes(<<"R", "E", "S", "T", "A", "R", "T">>), 0>>,
     <<Bytes(<<"L", "I", "N", "K", "S">>), 0>>,
     <<Bytes(<<"Q", "U", "I", "T">>), 0>>,
     <<Bytes(<<"M", "O", "T", "D">>), 0>>,
     <<Bytes(<<"V", "E", "R", "S", "I", "O", "N">>), 0>>,
     <<Bytes(<<"A", "D", "M", "I", "N">>), 0>>,
     <<Bytes(<<"T", "I", "M", "E">>), 0>>,
     <<Bytes(<<"H", "E", "L", "P">>), 0>>,
     <<Bytes(<<"A", "W", "A", "Y">>), 0>>,
     <<Bytes(<<"L", "I", "S", "T">>), 0>>,
     <<Bytes(<<"A", "C", "K">>), 0>>,
     <<Bytes(<<"A", "C", "C", "E", "P", "T">>), 0>>,
     <<Bytes(<<"S", "I", "L", "E", "N", "C", "E">>), 0>>,
     <<Bytes(<<"D", "I", "E">>), 0>>,
     <<Bytes(<<"T", "R", "A", "C", "E">>), 0>>,
     <<Bytes(<<"E", "T", "R", "A", "C", "E">>), 0>>,
     <<Bytes(<<"S", "E", "R", "V", "L", "I", "S", "T">>), 0>>,
     <<Bytes(<<"U", "S", "E", "R", "S">>), 0>>,
     <<Bytes(<<"M", "A", "P">>), 0>>,
     <<Bytes(<<"P", "A", "S", "S">>), 1>>,
     <<Bytes(<<"N", "I", "C", "K">>), 1>>,
     <<Bytes(<<"P", "I", "N", "G">>), 1>>,
     <<Bytes(<<"E", "R", "R", "O", "R">>), 1>>,
     <<Bytes(<<"N", "A", "M", "E", "S">>), 1>>,
     <<Bytes(<<"W", "H", "O">>), 1>>,
     <<Bytes(<<"W", "A", "L", "L", "O", "P", "S">>), 1>>,
     <<Bytes(<<"A", "U", "T", "H", "E", "N", "T", "I", "C", "A", "T", "E">>), 1>>,
     <<Bytes(<<"A", "C", "C", "O", "U", "N", "T">>), 1>>,
     <<Bytes(<<"C", "A", "P">>), 1>>,
     <<Bytes(<<"M", "O", "D", "E">>), 1>>,
     <<Bytes(<<"P", "O", "N", "G">>), 1>>,
     <<Bytes(<<"J", "O", "I", "N">>), 1>>,
     <<Bytes(<<"P", "A", "R", "T">>), 1>>,
     <<Bytes(<<"T", "O", "P", "I", "C">>), 1>>,
     <<Bytes(<<"S", "T", "A", "T", "S">>), 1>>,
     <<Bytes(<<"W", "H", "O", "I", "S">>), 1>>,
     <<Bytes(<<"W", "H", "O", "W", "A", "S">>), 1>>,
     <<Bytes(<<"C", "O", "N", "N", "E", "C", "T">>), 1>>,
     <<Bytes(<<"U", "S", "E", "R", "H", "O", "S", "T">>), 1>>,
     <<Bytes(<<"T", "A", "G", "M", "S", "G">>), 1>>,
     <<Bytes(<<"B", "A", "T", "C", "H">>), 1>>,
     <<Bytes(<<"S", "E", "T", "N", "A", "M", "E">>), 1>>,
     <<Bytes(<<"M", "O", "N", "I", "T", "O", "R">>), 1>>,
     <<Bytes(<<"I", "S", "O", "N">>), 1>>,
     <<Bytes(<<"K", "N", "O", "C", "K">>), 1>>,
     <<Bytes(<<"S", "U", "M", "M", "O", "N">>), 1>>,
     <<Bytes(<<"U", "S", "E", "R", "I", "P">>), 1>>,
     <<Bytes(<<"W", "A", "T", "C", "H">>), 1>>,
     <<Bytes(<<"O", "P", "E", "R">>), 2>>,
     <<Bytes(<<"I", "N", "V", "I", "T", "E">>), 2>>,
     <<Bytes(<<"P", "R", "I", "V", "M", "S", "G">>), 2>>,
     <<Bytes(<<"N", "O", "T", "I", "C", "E">>), 2>>,
     <<Bytes(<<"K", "I", "L", "L">>), 2>>,
     <<Bytes(<<"S", "Q", "U", "I", "T">>), 2>>,
     <<Bytes(<<"K", "I", "C", "K">>), 2>>,
     <<Bytes(<<"C", "H", "G", "H", "O", "S", "T">>), 2>>,
     <<Bytes(<<"E", "N", "C", "A", "P">>), 2>>,
     <<Bytes(<<"S", "Q", "U", "E", "R", "Y">>), 2>>,
     <<Bytes(<<"M", "E", "T", "A", "D", "A", "T", "A">>), 2>>,
     <<Bytes(<<"F", "A", "I", "L">>), 3>>,
     <<Bytes(<<"W", "A", "R", "N">>), 3>>,
     <<Bytes(<<"N", "O", "T", "E">>), 3>>,
     <<Bytes(<<"C", "P", "R", "I", "V", "M", "S", "G">>), 3>>,
     <<Bytes(<<"C", "N", "O", "T", "I", "C", "E">>), 3>>,
     <<Bytes(<<"S", "E", "R", "V", "E", "R">>), 3>>,
     <<Bytes(<<"U", "S", "E", "R">>), 4>>,
     <<Bytes(<<"W", "E", "B", "I", "R", "C">>), 4>>,
     <<Bytes(<<"S", "E", "R", "V", "I", "C", "E">>), 6>>}

CommandErr(err, byte, min, cmd) ==
    [kind |-> "Err", err |-> err, byte |-> byte, min |-> min, name |-> cmd]
CommandPanic == [kind |-> "Panic", err |-> "", byte |-> 0, min |-> 0, name |-> <<>>]
Named(name) == [kind |-> "Named", err |-> "", byte |-> 0, min |-> 0, name |-> name]
Numeric(name) == [kind |-> "Numeric", err |-> "", byte |-> 0, min |-> 0, name |-> name]

IsAsciiDigit(b) == b >= 48 /\ b <= 57
IsAsciiUppercase(b) == b >= 65 /\ b <= 90
IsAsciiLowercase(b) == b >= 97 /\ b <= 122
IsAsciiAlphanumeric(b) == IsAsciiDigit(b) \/ IsAsciiUppercase(b) \/ IsAsciiLowercase(b)
\* is_invalid_char
IsInvalidChar(b) == ~IsAsciiAlphanumeric(b)
ToAsciiUppercase(b) == IF IsAsciiLowercase(b) THEN b - 32 ELSE b

\* command_to_uppercase_bytes: a 12-byte array of '0' overwritten by the
\* upper-cased input; <<>> stands for the panic of writing past its end.
CommandToUppercaseBytes(in) ==
    IF Len(in) > CommandWidth THEN <<>>
    ELSE [i \in 1..CommandWidth |->
            IF i <= Len(in) THEN ToAsciiUppercase(in[i]) ELSE Digit0]

\* The pattern of a named entry: its spelling padded with '0' to 12 bytes.
NamedPattern(name) ==
    [i \in 1..CommandWidth |-> IF i <= Len(name) THEN name[i] ELSE Digit0]

\* The minimum parameter count of a three-digit numeric, or -1 when unhandled.
NumericMinimum(in) ==
    LET n == 100 * (in[1] - 48) + 10 * (in[2] - 48) + (in[3] - 48)
    IN IF n \in NumericMin1 THEN 1
       ELSE IF n \in NumericMin2 THEN 2
       ELSE IF n \in NumericMin3 THEN 3
       ELSE IF n \in NumericMin4 THEN 4
       ELSE IF n \in NumericMin5 THEN 5
       ELSE IF n \in NumericMin6 THEN 6
       ELSE IF n \in NumericMin7 THEN 7
       ELSE IF n \in NumericMin8 THEN 8
       ELSE -1

\* The numeric arm of Command::parse.
CommandNumericArm(in, params_amount) ==
    LET min == NumericMinimum(in)
    IN IF min = -1 THEN CommandErr("UnhandledNumeric", 0, 0, in)
       ELSE IF params_amount < min THEN CommandErr("MinimumArgsRequired", 0, min, in)
       ELSE Numeric(in)

\* The named arm asking for one parameter more than the minimum.
CommandNamedArmOffByOne(in, params_amount) ==
    LET upper == CommandToUppercaseBytes(in)
        hits == {e \in NamedTable : NamedPattern(e[1]) = upper}
    IN IF upper = <<>> THEN CommandPanic
       ELSE IF hits = {} THEN CommandErr("UnhandledNamed", 0, 0, in)
       ELSE LET e == CHOOSE e \in hits : TRUE
            IN IF params_amount <= e[2]
               THEN CommandErr("MinimumArgsRequired", 0, e[2], in)
               ELSE Named(e[1])

\* The named arm returning the token as it was given.
CommandNamedArmVerbatim(in, params_amount) ==
    LET upper == CommandToUppercaseBytes(in)
        hits == {e \in NamedTable : NamedPattern(e[1]) = upper}
    IN IF upper = <<>> THEN CommandPanic
       ELSE IF hits = {} THEN CommandErr("UnhandledNamed", 0, 0, in)
       ELSE LET e == CHOOSE e \in hits : TRUE
            IN IF params_amount < e[2]
               THEN CommandErr("MinimumArgsRequired", 0, e[2], in)
               ELSE Named(in)

\* The named arm of Command::parse.
CommandNamedArm(in, params_amount) ==
    LET upper == CommandToUppercaseBytes(in)
        hits == {e \in NamedTable : NamedPattern(e[1]) = upper}
    IN IF upper = <<>> THEN CommandPanic
       ELSE IF hits = {} THEN CommandErr("UnhandledNamed", 0, 0, in)
       ELSE LET e == CHOOSE e \in hits : TRUE
            IN IF params_amount < e[2]
               THEN CommandErr("MinimumArgsRequired", 0, e[2], in)
               ELSE Named(e[1])

\* Command::parse without the test for digits in a named command.
CommandParseWithoutDigitTest(in, params_amount) ==
    LET invalid == {i \in 1..Len(in) : IsInvalidChar(in[i])}
        number_count == Cardinality({i \in 1..Len(in) : IsAsciiDigit(in[i])})
    IN IF Len(in) = 0 THEN CommandErr("EmptyInput", 0, 0, <<>>)
       ELSE IF invalid # {} THEN CommandErr("InvalidByte", in[Min(invalid)], 0, <<>>)
       ELSE IF Len(in) = 3 /\ number_count = 3 THEN CommandNumericArm(in, params_amount)
       ELSE CommandNamedArm(in, params_amount)

CommandParse(in, params_amount) ==
    LET invalid == {i \in 1..Len(in) : IsInvalidChar(in[i])}
        number_count == Cardinality({i \in 1..Len(in) : IsAsciiDigit(in[i])})
    IN IF Len(in) = 0 THEN CommandErr("EmptyInput", 0, 0, <<>>)
       ELSE IF invalid # {} THEN CommandErr("InvalidByte", in[Min(invalid)], 0, <<>>)
       ELSE IF Len(in) = 3 /\ number_count = 3 THEN CommandNumericArm(in, params_amount)
       ELSE IF number_count > 0 THEN CommandErr("NumberInNamedCommand", 0, 0, in)
       ELSE CommandNamedArm(in, params_amount)

(***************************************************************************)
(* IrcMsg (lib.rs).                                                        *)
(***************************************************************************)
\* Option<Tags> and Option<Source>
NoTagsField == [some |-> FALSE, value |-> TagsOk(0, <<>>)]
SomeTags(t) == [some |-> TRUE, value |-> t]
NoSourceField == [some |-> FALSE, value |-> Nickname(<<>>, ContentNone, ContentNone)]
SomeSource(src) == [some |-> TRUE, value |-> src]

IrcMsgOk(tags, source, command, parameters) ==
    [kind |-> "Ok", tags |-> tags, source |-> source, command |-> command,
     parameters |-> parameters]
\* IrcMsgError: the component that failed and the error it returned.
IrcMsgErr(component, error) == [kind |-> "Err", component |-> component, error |-> error]
IrcMsgPanic == [kind |-> "Panic"]
\* The panic of the unreachable!() of IrcMsg::parse.
IrcMsgUnreachable == [kind |-> "Panic", unreachable |-> TRUE]
Running == [kind |-> "Running"]

\* remove_possible_leading_space, for a non-empty slice (input[0] is read).
RemovePossibleLeadingSpace(in) == IF in[1] = SP THEN Tail(in) ELSE in

\* The arm of IrcMsg::parse for the space that ends the tag block.
MsgTagsArm(in, st) ==
    LET t == SplitLeft(in, st.index)
        rest == SplitRight(in, st.index)
        all_tags == TagsParse(t)
        split == [st EXCEPT !.tag_finished = TRUE, !.after_tag_end = st.index + 1]
    IN IF Len(rest) = 0 THEN [split EXCEPT !.outcome = IrcMsgPanic]
       ELSE IF all_tags.kind = "Ok"
       THEN [split EXCEPT !.copy = RemovePossibleLeadingSpace(rest),
                          !.tags = SomeTags(all_tags)]
       ELSE [split EXCEPT !.outcome = IrcMsgErr("Tags", all_tags)]

\* The arm for the space that ends the source.
MsgSourceArm(in, st) ==
    LET n == st.index - st.after_tag_end
        s == SplitLeft(st.copy, n)
        rest == SplitRight(st.copy, n)
        src == SourceParse(s)
        split == [st EXCEPT !.source_finished = TRUE, !.after_source_end = st.index + 1]
    IN IF ~CanSplit(st.copy, n) \/ Len(rest) = 0 \/ src.kind = "Panic"
       THEN [split EXCEPT !.outcome = IrcMsgPanic]
       ELSE IF src.kind = "Ok"
       THEN [split EXCEPT !.copy = RemovePossibleLeadingSpace(rest),
                          !.source = SomeSource(src),
                          !.command_started = TRUE]
       ELSE [split EXCEPT !.outcome = IrcMsgErr("Source", src)]

\* The command arm with the parameters taken from the space itself on
\* (after_command_end = index).
MsgCommandArmKeepingSpace(in, st) ==
    LET n == IF st.source_present THEN st.index - st.after_source_end
             ELSE st.index - st.after_tag_end
    IN IF ~CanSplit(st.copy, n) THEN [st EXCEPT !.outcome = IrcMsgPanic]
       ELSE [st EXCEPT !.parameters_started = TRUE,
                       !.copy = SplitLeft(st.copy, n),
                       !.after_command_end = st.index]

\* The arm for the space that ends the command token.
MsgCommandArm(in, st) ==
    LET n == IF st.source_present THEN st.index - st.after_source_end
             ELSE st.index - st.after_tag_end
    IN IF ~CanSplit(st.copy, n) THEN [st EXCEPT !.outcome = IrcMsgPanic]
       ELSE [st EXCEPT !.parameters_started = TRUE,
                       !.copy = SplitLeft(st.copy, n),
                       !.after_command_end = st.index + 1]

\* One pass through the body of the scanning loop of IrcMsg::parse.
MsgArm(in, st) ==
    LET b == in[st.index + 1]
        index == st.index
    IN IF index = 0 /\ b = AT THEN [st EXCEPT !.tag_present = TRUE]
       ELSE IF index = 0 /\ b = COLON THEN [st EXCEPT !.source_present = TRUE]
       ELSE IF index = 0 /\ b # COLON /\ b # AT THEN [st EXCEPT !.command_started = TRUE]
       ELSE IF st.tag_finished /\ ~st.command_started /\ ~st.source_present /\ b = COLON
       THEN [st EXCEPT !.source_present = TRUE]
       ELSE IF st.tag_present /\ ~st.tag_finished /\ b = SP THEN MsgTagsArm(in, st)
       ELSE IF st.source_present /\ ~st.source_finished /\ b = SP THEN MsgSourceArm(in, st)
       ELSE IF st.command_started /\ ~st.parameters_started /\ b = SP
       THEN MsgCommandArm(in, st)
       ELSE IF st.tag_finished /\ ~st.source_present /\ ~st.command_started
       THEN [st EXCEPT !.command_started = TRUE]
       ELSE IF st.parameters_started THEN [st EXCEPT !.stop = TRUE]
       ELSE st

RECURSIVE MsgScan(_, _)
MsgScan(in, st) ==
    IF st.index >= Len(in) THEN st
    ELSE LET next == MsgArm(in, st)
         IN IF next.stop \/ next.outcome.kind # "Running" THEN next
            ELSE MsgScan(in, [next EXCEPT !.index = next.index + 1])

\* What IrcMsg::parse does once the scan is over.
MsgFinish(in, st) ==
    IF st.parameters_started
    THEN LET p == SplitRight(in, st.after_command_end)
             params == ParametersParse(p)
             cmd == CommandParse(st.copy, params.amount)
         IN IF ~CanSplit(in, st.after_command_end) THEN IrcMsgPanic
            ELSE IF params.kind = "InvalidByte" THEN IrcMsgErr("Parameters", params)
            ELSE IF params.kind = "None" THEN IrcMsgUnreachable
            ELSE IF cmd.kind = "Panic" THEN IrcMsgPanic
            ELSE IF cmd.kind = "Err" THEN IrcMsgErr("Command", cmd)
            ELSE IrcMsgOk(st.tags, st.source, cmd, params)
    ELSE LET cmd == CommandParse(st.copy, 0)
         IN IF cmd.kind = "Panic" THEN IrcMsgPanic
            ELSE IF cmd.kind = "Err" THEN IrcMsgErr("Command", cmd)
            ELSE IrcMsgOk(st.tags, st.source, cmd, ParametersNone)

IrcMsgParse(in) ==
    IF Len(in) = 0 THEN IrcMsgErr("EmptyInput", Running)
    ELSE LET st == MsgScan(in,
                     [index |-> 0, tags |-> NoTagsField, tag_present |-> FALSE,
                      after_tag_end |-> 0, tag_finished |-> FALSE,
                      source |-> NoSourceField, source_present |-> FALSE,
                      after_source_end |-> 0, source_finished |-> FALSE,
                      command_started |-> FALSE, after_command_end |-> 0,
                      parameters_started |-> FALSE, copy |-> in, stop |-> FALSE,
                      outcome |-> Running])
         IN IF st.outcome.kind # "Running" THEN st.outcome ELSE MsgFinish(in, st)

\* IrcMsg::parse checking for UTF-8 before it parses.
IrcMsgParseUtf8First(in) ==
    IF ~ContentTypeNew(in).utf8 THEN IrcMsgErr("NonUtf8Message", Running)
    ELSE IrcMsgParse(in)

\* The match on the message parse_utf8_only got from IrcMsg::parse.
Utf8OnlyCheck(msg, in) ==
    IF msg.kind = "Ok"
    THEN IF ContentTypeNew(in).utf8 THEN msg
         ELSE IrcMsgErr("NonUtf8Message", Running)
    ELSE msg
\* IrcMsg::parse_utf8_only
IrcMsgParseUtf8Only(in) == Utf8OnlyCheck(IrcMsgParse(in), in)

\* strip_tags clearing the source as well.
StripTagsAndSource(m) == [m EXCEPT !.tags = NoTagsField, !.source = NoSourceField]

\* IrcMsg::strip_tags
StripTags(m) == IF m.tags.some THEN [m EXCEPT !.tags = NoTagsField] ELSE m

\* Display for IrcMsg without the space between command and parameters.
DisplayIrcMsgNoParameterSpace(m) ==
    (IF m.tags.some THEN m.tags.value.content \o <<SP>> ELSE <<>>)
        \o (IF m.source.some THEN DisplaySource(m.source.value) \o <<SP>> ELSE <<>>)
        \o m.command.name
        \o (IF m.parameters.kind = "Some"
            THEN DisplayContentType(m.parameters.content)
            ELSE <<>>)

\* impl Display for IrcMsg (with those of Tags, Command and Parameters).
DisplayIrcMsg(m) ==
    (IF m.tags.some THEN m.tags.value.content \o <<SP>> ELSE <<>>)
        \o (IF m.source.some THEN DisplaySource(m.source.value) \o <<SP>> ELSE <<>>)
        \o m.command.name
        \o (IF m.parameters.kind = "Some"
            THEN <<SP>> \o DisplayContentType(m.parameters.content)
            ELSE <<>>)

(***************************************************************************)
(* IrcFmtByte (formatting.rs).                                             *)
(***************************************************************************)
HexWidth == 6

IsAsciiHexdigit(b) ==
    IsAsciiDigit(b) \/ (b >= 65 /\ b <= 70) \/ (b >= 97 /\ b <= 102)

\* IrcFmtByte::detect; "" stands for None.
Detect(b) ==
    CASE b = 2 -> "Bold"
      [] b = 3 -> "Colour"
      [] b = 4 -> "HexColour"
      [] b = 15 -> "Reset"
      [] b = 17 -> "Monospace"
      [] b = 22 -> "ReverseColour"
      [] b = 29 -> "Italics"
      [] b = 30 -> "Strikethrough"
      [] b = 31 -> "Underline"
      [] OTHER -> ""

\* The loop of contains_irc_formatting from index on.
RECURSIVE ContainsFrom(_, _)
ContainsFrom(in, index) ==
    IF index >= Len(in) THEN FALSE
    ELSE IF Detect(in[index + 1]) # "" THEN TRUE
    ELSE ContainsFrom(in, index + 1)

\* IrcFmtByte::contains_irc_formatting
ContainsIrcFormatting(in) == ContainsFrom(in, 0)

\* Option<(IrcFmtByte, usize)>
FmtNone == [some |-> FALSE, fb |-> "", index |-> 0]
FmtSome(fb, index) == [some |-> TRUE, fb |-> fb, index |-> index]

\* The loop of find_nth_fmt_byte_and_position.
RECURSIVE FindNthFrom(_, _, _, _)
FindNthFrom(in, nth, index, count) ==
    IF index >= Len(in) THEN FmtNone
    ELSE IF Detect(in[index + 1]) # ""
    THEN IF count = nth THEN FmtSome(Detect(in[index + 1]), index)
         ELSE FindNthFrom(in, nth, index + 1, count + 1)
    ELSE FindNthFrom(in, nth, index + 1, count)

\* The same loop returning at the first formatting byte whatever nth is.
FindFirstFmtByteAndPosition(in, nth) == FindNthFrom(in, 0, 0, 0)

\* IrcFmtByte::find_nth_fmt_byte_and_position
FindNthFmtByteAndPosition(in, nth) == FindNthFrom(in, nth, 0, 0)

\* The loop of count_fmt_bytes.
RECURSIVE CountFrom(_, _, _)
CountFrom(in, index, count) ==
    IF index >= Len(in) THEN count
    ELSE CountFrom(in, index + 1,
                   IF Detect(in[index + 1]) # "" THEN count + 1 ELSE count)

\* IrcFmtByte::count_fmt_bytes
CountFmtBytes(in) == CountFrom(in, 0, 0)

\* OptMsgPart of a slice: None when it is empty.
OptPart(s) == IF s = <<>> THEN StrNone ELSE StrSome(s)

\* OptIrcColours
NoColours == [some |-> FALSE, foreground |-> <<>>, background |-> StrNone]
Colours(foreground, background) ==
    [some |-> TRUE, foreground |-> foreground, background |-> background]

\* The result of split_at_first_fmt_byte; fb is "" for None.
SplitNone ==
    [kind |-> "None", before |-> StrNone, fb |-> "", colours |-> NoColours,
     after |-> StrNone]
SplitSome(before, fb, colours, after) ==
    [kind |-> "Some", before |-> before, fb |-> fb, colours |-> colours,
     after |-> after]
SplitPanic ==
    [kind |-> "Panic", before |-> StrNone, fb |-> "", colours |-> NoColours,
     after |-> StrNone]

\* The five flags of irc_colour_codes.
ColourFlags(ff, fs, comma, bf, bs) ==
    [foreground_first |-> ff, foreground_second |-> fs, comma |-> comma,
     background_first |-> bf, background_second |-> bs]

\* The loop of irc_colour_codes; it ends at a break or at the end of input.
RECURSIVE ColourScan(_, _, _)
ColourScan(in, index, f) ==
    IF index >= Len(in) THEN f
    ELSE LET b == in[index + 1]
             digit == IsAsciiDigit(b)
         IN CASE index = 0 ->
                    IF digit
                    THEN ColourScan(in, 1, [f EXCEPT !.foreground_first = TRUE])
                    ELSE f
              [] index = 1 ->
                    IF digit
                    THEN ColourScan(in, 2, [f EXCEPT !.foreground_second = TRUE])
                    ELSE IF b = COMMA
                    THEN ColourScan(in, 2, [f EXCEPT !.comma = TRUE])
                    ELSE f
              [] index = 2 ->
                    IF digit
                    THEN ColourScan(in, 3, [f EXCEPT !.background_first = TRUE])
                    ELSE IF b = COMMA
                    THEN ColourScan(in, 3, [f EXCEPT !.comma = TRUE])
                    ELSE f
              [] index = 3 ->
                    IF digit /\ f.foreground_first /\ f.foreground_second /\ f.comma
                    THEN ColourScan(in, 4, [f EXCEPT !.background_first = TRUE])
                    ELSE IF digit /\ f.foreground_first /\ ~f.foreground_second
                            /\ f.comma /\ f.background_first
                    THEN ColourScan(in, 4, [f EXCEPT !.background_second = TRUE])
                    ELSE f
              [] index = 4 ->
                    IF digit
                    THEN ColourScan(in, 5, [f EXCEPT !.background_second = TRUE])
                    ELSE f
              [] OTHER -> f

\* The final match of irc_colour_codes; "" stands for None.
ColourCodeSize(f) ==
    LET t == <<f.foreground_first, f.foreground_second, f.comma,
               f.background_first, f.background_second>>
    IN CASE t \in {<<TRUE, FALSE, TRUE, FALSE, FALSE>>,
                   <<TRUE, FALSE, FALSE, FALSE, FALSE>>} -> "SingleDigit"
         [] t \in {<<TRUE, TRUE, TRUE, FALSE, FALSE>>,
                   <<TRUE, TRUE, FALSE, FALSE, FALSE>>} -> "DoubleDigit"
         [] t = <<TRUE, FALSE, TRUE, TRUE, FALSE>> -> "SingleAndSingle"
         [] t = <<TRUE, FALSE, TRUE, TRUE, TRUE>> -> "SingleAndDouble"
         [] t = <<TRUE, TRUE, TRUE, TRUE, FALSE>> -> "DoubleAndSingle"
         [] t = <<TRUE, TRUE, TRUE, TRUE, TRUE>> -> "DoubleAndDouble"
         [] OTHER -> ""

\* IrcFmtByte::irc_colour_codes
IrcColourCodes(in) ==
    ColourCodeSize(ColourScan(in, 0, ColourFlags(FALSE, FALSE, FALSE, FALSE, FALSE)))

\* IrcFmtByte::one_colour
OneColour(before, fb, after, index) ==
    IF ~CanSplit(after, index) THEN SplitPanic
    ELSE SplitSome(before, fb, Colours(SplitLeft(after, index), StrNone),
                   OptPart(SplitRight(after, index)))

\* two_colours leaving the comma in front of the background.
TwoColoursKeepingComma(before, fb, after, first_split, last_split) ==
    SplitSome(before, fb,
              Colours(SplitLeft(after, first_split),
                      StrSome(SubSeq(after, first_split + 1,
                                     first_split + last_split))),
              OptPart(SplitRight(after, first_split + last_split)))

\* IrcFmtByte::two_colours
TwoColours(before, fb, after, first_split, last_split) ==
    IF ~CanSplit(after, first_split) THEN SplitPanic
    ELSE LET foreground == SplitLeft(after, first_split)
             comma_onwards == SplitRight(after, first_split)
         IN IF ~CanSplit(comma_onwards, 1) THEN SplitPanic
            ELSE LET after_comma == SplitRight(comma_onwards, 1)
                 IN IF ~CanSplit(after_comma, last_split) THEN SplitPanic
                    ELSE SplitSome(before, fb,
                                   Colours(foreground,
                                           StrSome(SplitLeft(after_comma, last_split))),
                                   OptPart(SplitRight(after_comma, last_split)))

\* The Colour arm of split_at_first_fmt_byte.
SplitColourArm(before, fb, after) ==
    IF after = <<>> THEN SplitSome(before, fb, NoColours, StrNone)
    ELSE LET codes == IrcColourCodes(after)
         IN CASE codes = "SingleDigit" -> OneColour(before, fb, after, 1)
              [] codes = "DoubleDigit" -> OneColour(before, fb, after, 2)
              [] codes = "SingleAndSingle" -> TwoColours(before, fb, after, 1, 1)
              [] codes = "SingleAndDouble" -> TwoColours(before, fb, after, 1, 2)
              [] codes = "DoubleAndSingle" -> TwoColours(before, fb, after, 2, 1)
              [] codes = "DoubleAndDouble" -> TwoColours(before, fb, after, 2, 2)
              [] OTHER -> SplitSome(before, fb, NoColours, StrSome(after))

\* is_hex_colour
RECURSIVE IsHexColourFrom(_, _)
IsHexColourFrom(in, index) ==
    IF index >= Len(in) THEN TRUE
    ELSE IF ~IsAsciiHexdigit(in[index + 1]) THEN FALSE
    ELSE IsHexColourFrom(in, index + 1)

IsHexColour(in) == IsHexColourFrom(in, 0)

\* The HexColour arm taking a second colour without looking for the comma.
SplitHexColourArmAnySeparator(before, fb, after) ==
    IF Len(after) > 2 * HexWidth /\ IsHexColour(SplitLeft(after, HexWidth))
       /\ IsHexColour(SubSeq(after, HexWidth + 2, 2 * HexWidth + 1))
    THEN SplitSome(before, fb,
                   Colours(SplitLeft(after, HexWidth),
                           StrSome(SubSeq(after, HexWidth + 2, 2 * HexWidth + 1))),
                   OptPart(SplitRight(after, 2 * HexWidth + 1)))
    ELSE IF Len(after) > 5 /\ IsHexColour(SplitLeft(after, HexWidth))
    THEN SplitSome(before, fb, Colours(SplitLeft(after, HexWidth), StrNone),
                   OptPart(SplitRight(after, HexWidth)))
    ELSE SplitSome(before, fb, NoColours, OptPart(after))

\* The HexColour arm of split_at_first_fmt_byte.
SplitHexColourArm(before, fb, after) ==
    IF after = <<>> THEN SplitSome(before, fb, NoColours, StrNone)
    ELSE IF Len(after) > 5 /\ IsHexColour(SplitLeft(after, HexWidth))
    THEN LET first_colour == SplitLeft(after, HexWidth)
             comma_onwards == SplitRight(after, HexWidth)
         IN IF Len(comma_onwards) > 6 /\ comma_onwards[1] = COMMA
               /\ IsHexColour(SubSeq(comma_onwards, 2, HexWidth + 1))
            THEN SplitSome(before, fb,
                           Colours(first_colour,
                                   StrSome(SubSeq(comma_onwards, 2, HexWidth + 1))),
                           OptPart(SplitRight(comma_onwards, HexWidth + 1)))
            ELSE SplitSome(before, fb, Colours(first_colour, StrNone),
                           OptPart(comma_onwards))
    ELSE SplitSome(before, fb, NoColours, StrSome(after))

\* The body of the loop of split_at_first_fmt_byte at a formatting byte
\* found at index.
SplitAtIndex(in, index) ==
    LET fb == Detect(in[index + 1])
        before == OptPart(SplitLeft(in, index))
        after == SplitRight(in, index + 1)
    IN CASE fb = "Colour" -> SplitColourArm(before, fb, after)
         [] fb = "HexColour" -> SplitHexColourArm(before, fb, after)
         [] OTHER -> SplitSome(before, fb, NoColours, OptPart(after))

\* The loop of split_at_first_fmt_byte.
RECURSIVE SplitScan(_, _)
SplitScan(in, index) ==
    IF index >= Len(in) THEN SplitSome(StrSome(in), "", NoColours, StrNone)
    ELSE IF Detect(in[index + 1]) # "" THEN SplitAtIndex(in, index)
    ELSE SplitScan(in, index + 1)

\* IrcFmtByte::split_at_first_fmt_byte
SplitAtFirstFmtByte(in) ==
    IF in = <<>> THEN SplitNone
    ELSE IF ContainsIrcFormatting(in) THEN SplitScan(in, 0)
    ELSE SplitSome(StrSome(in), "", NoColours, StrNone)

(***************************************************************************)
(* IrcCaseMapping (casemapping.rs).                                        *)
(***************************************************************************)
BACKSLASH == 92
CARET == 94
LBRACE == 123
PIPE == 124
RBRACE == 125
TILDE == 126

CaseMappings == {"Ascii", "Rfc1459", "Rfc1459Strict"}

IsAsciiAlphabetic(b) == IsAsciiUppercase(b) \/ IsAsciiLowercase(b)
\* u8::eq_ignore_ascii_case
EqIgnoreAsciiCase(a, b) == ToAsciiUppercase(a) = ToAsciiUppercase(b)

\* IrcCaseMapping::rfc1459_is_equivalent
Rfc1459IsEquivalent(first, second, strict) ==
    \/ <<first, second>> \in {<<LBRACE, LBRACKET>>, <<LBRACKET, LBRACE>>,
                              <<RBRACE, RBRACKET>>, <<RBRACKET, RBRACE>>,
                              <<PIPE, BACKSLASH>>, <<BACKSLASH, PIPE>>}
    \/ /\ <<first, second>> \in {<<CARET, TILDE>>, <<TILDE, CARET>>}
       /\ ~strict

\* The loop of is_equivalent from index on.
RECURSIVE EquivalentFrom(_, _, _, _)
EquivalentFrom(mapping, first, second, index) ==
    IF index >= Len(first) THEN TRUE
    ELSE LET a == first[index + 1]
             b == second[index + 1]
         IN IF IsAsciiAlphabetic(a) /\ IsAsciiAlphabetic(b)
            THEN IF EqIgnoreAsciiCase(a, b) THEN FALSE
                 ELSE EquivalentFrom(mapping, first, second, index + 1)
            ELSE IF a # b
            THEN CASE mapping = "Ascii" -> FALSE
                   [] mapping = "Rfc1459" ->
                        IF ~Rfc1459IsEquivalent(a, b, FALSE) THEN FALSE
                        ELSE EquivalentFrom(mapping, first, second, index + 1)
                   [] mapping = "Rfc1459Strict" ->
                        IF ~Rfc1459IsEquivalent(a, b, TRUE) THEN FALSE
                        ELSE EquivalentFrom(mapping, first, second, index + 1)
            ELSE EquivalentFrom(mapping, first, second, index + 1)

\* is_equivalent comparing only as many bytes as the shorter slice has.
IsEquivalentUpToShorter(mapping, first, second) ==
    IF Len(first) <= Len(second) THEN EquivalentFrom(mapping, first, second, 0)
    ELSE FALSE

\* IrcCaseMapping::is_equivalent
IsEquivalent(mapping, first, second) ==
    IF Len(first) # Len(second) THEN FALSE
    ELSE EquivalentFrom(mapping, first, second, 0)

(***************************************************************************)
(* ISupportToken (isupport.rs).                                            *)
(***************************************************************************)
MINUS == 45

ISupportOk(set, parameter, equals_present, value) ==
    [kind |-> "Ok", set |-> set, parameter |-> parameter,
     equals_present |-> equals_present, value |-> value, err |-> "", byte |-> 0]
ISupportErr(err, byte) ==
    [kind |-> "Err", set |-> FALSE, parameter |-> NoContent,
     equals_present |-> FALSE, value |-> ContentNone, err |-> err, byte |-> byte]

\* is_invalid_parameter_byte
IsInvalidParameterByte(b) == ~IsAsciiUppercase(b) /\ ~IsAsciiDigit(b)

\* is_invalid_value_byte
IsInvalidValueByte(b) ==
    /\ ~IsAsciiAlphanumeric(b)
    /\ ~(\/ b >= 33 /\ b <= 47
         \/ b = 32
         \/ b = 92
         \/ b = 61
         \/ b >= 58 /\ b <= 60
         \/ b >= 62 /\ b <= 64
         \/ b = 91
         \/ b >= 93 /\ b <= 96
         \/ b >= 123 /\ b <= 126)

\* invalid_parameter_byte and invalid_value_byte: the offsets of the bytes
\* they would return; the first of them is the one returned.
InvalidParameterOffsetsOf(in) ==
    {i \in 0..(Len(in) - 1) : IsInvalidParameterByte(in[i + 1])}
InvalidValueOffsetsOf(in) ==
    {i \in 0..(Len(in) - 1) : IsInvalidValueByte(in[i + 1])}

\* ISupportToken::new
ISupportNew(set, parameter, value) ==
    IF parameter = <<>> THEN ISupportErr("EmptyParameter", 0)
    ELSE IF InvalidParameterOffsetsOf(parameter) # {}
    THEN ISupportErr("InvalidParameterByte",
                     parameter[Min(InvalidParameterOffsetsOf(parameter)) + 1])
    ELSE IF value.some
    THEN IF ~set THEN ISupportErr("ValueNotPermittedOnNegatedToken", 0)
         ELSE IF value.bytes = <<>>
         THEN ISupportOk(set, ContentTypeNew(parameter), TRUE, ContentNone)
         ELSE IF InvalidValueOffsetsOf(value.bytes) # {}
         THEN ISupportErr("InvalidValueByte",
                          value.bytes[Min(InvalidValueOffsetsOf(value.bytes)) + 1])
         ELSE ISupportOk(set, ContentTypeNew(parameter), TRUE,
                         ContentSome(value.bytes))
    ELSE ISupportOk(set, ContentTypeNew(parameter), FALSE, ContentNone)

\* The loop of ISupportToken::parse over copy.
RECURSIVE ISupportScan(_, _, _)
ISupportScan(copy, set, st) ==
    IF st.index >= Len(copy) THEN st
    ELSE LET b == copy[st.index + 1]
         IN IF ~st.equals_present /\ b = EQUALS
            THEN IF ~set
                 THEN [st EXCEPT !.outcome =
                                    ISupportErr("ValueNotPermittedOnNegatedToken", 0)]
                 ELSE ISupportScan(copy, set,
                                   [st EXCEPT !.equals_present = TRUE,
                                              !.equals_index = st.index,
                                              !.index = st.index + 1])
            ELSE IF ~st.equals_present /\ IsInvalidParameterByte(b)
            THEN [st EXCEPT !.outcome = ISupportErr("InvalidParameterByte", b)]
            ELSE IF st.equals_present /\ IsInvalidValueByte(b)
            THEN [st EXCEPT !.outcome = ISupportErr("InvalidValueByte", b)]
            ELSE ISupportScan(copy, set, [st EXCEPT !.index = st.index + 1])

\* What ISupportToken::parse does with copy once '-' has been taken off.
ISupportParseCopy(copy, set) ==
    LET st == ISupportScan(copy, set,
                  [index |-> 0, equals_present |-> FALSE, equals_index |-> 0,
                   outcome |-> Running])
    IN IF st.outcome.kind # "Running" THEN st.outcome
       ELSE IF st.equals_present
       THEN IF st.equals_index = 0 THEN ISupportErr("NoParameterBeforeEquals", 0)
            ELSE LET first == SplitLeft(copy, st.equals_index)
                     after == SplitRight(copy, st.equals_index + 1)
                 IN ISupportOk(set, ContentTypeNew(first), TRUE,
                               IF after = <<>> THEN ContentNone
                               ELSE ContentSome(after))
       ELSE ISupportOk(set, ContentTypeNew(copy), FALSE, ContentNone)

\* ISupportToken::parse
ISupportParse(in) ==
    IF in = <<>> THEN ISupportErr("EmptyInput", 0)
    ELSE IF in[1] = MINUS THEN ISupportParseCopy(SplitRight(in, 1), FALSE)
    ELSE ISupportParseCopy(in, TRUE)

(***************************************************************************)
(* Bounded inputs.                                                         *)
(***************************************************************************)
MaxParamLen == 5
ParamAlphabet == {Ord("p"), SP, COLON, NUL, NonUtf8Byte}
ParamInputs == SeqsUpTo(ParamAlphabet, MaxParamLen)

\* Tag spans: every span of at most one byte, and '@' followed by up to
\* MaxTagLen bytes.
MaxTagLen == 5
TagAlphabet == {Ord("k"), EQUALS, SEMICOLON, PLUS, SLASH, NUL, NonUtf8Byte}
TagInputs ==
    SeqsUpTo(TagAlphabet \cup {AT}, 1)
        \cup {<<AT>> \o s : s \in SeqsUpTo(TagAlphabet, MaxTagLen)}

\* Messages: a tag block, a source, a command token and up to MaxParams
\* parameters, each drawn from well-formed and malformed pieces.
MaxParams == 2
TagPieces ==
    {<<>>,
     <<AT, Ord("k"), SP>>,
     <<AT, PLUS, Ord("v"), SLASH, Ord("k"), EQUALS, Ord("k"), Ord("k"), SEMICOLON, Ord("k"), SP>>,
     <<AT, Ord("k"), SEMICOLON, Ord("k"), Ord("k"), SP>>,
     <<AT, SP>>,
     <<AT, Ord("k")>>}
SourcePieces ==
    {<<>>,
     <<COLON, Ord("n"), SP>>,
     <<COLON, Ord("n"), BANG, Ord("u"), AT, Ord("h"), SP>>,
     <<COLON, Ord("s"), DOT, Ord("x"), SP>>,
     <<COLON, Ord("n"), AT, Ord("h"), SP>>,
     <<COLON, Ord("n"), BANG, Ord("u"), SP>>,
     <<COLON, Ord("n"), BANG, Ord("u"), AT, Ord("h"), AT, Ord("x"), SP>>,
     <<COLON, Ord("n"), BANG, AT, Ord("h"), SP>>,
     <<COLON, SP>>,
     <<COLON, NonUtf8Byte, SP>>}
CommandPieces ==
    {<<>>,
     Bytes(<<"A", "C", "K">>),
     Bytes(<<"a", "c", "k">>),
     Bytes(<<"P", "a", "s", "s">>),
     Bytes(<<"0", "0", "1">>),
     Bytes(<<"A", "1">>),
     Bytes(<<"A", "B", "C", "D", "E", "F", "G", "H", "I", "J", "K", "L", "M">>)}
ParameterPieces ==
    {<<>>, <<Ord("p")>>, <<COLON, Ord("p")>>, <<NonUtf8Byte>>, <<NUL>>}
\* Each parameter piece behind one space.
RECURSIVE JoinParameters(_)
JoinParameters(ps) ==
    IF Len(ps) = 0 THEN <<>> ELSE <<SP>> \o Head(ps) \o JoinParameters(Tail(ps))
MsgInputs ==
    {t \o s \o c \o JoinParameters(ps) :
        t \in TagPieces, s \in SourcePieces, c \in CommandPieces,
        ps \in SeqsUpTo(ParameterPieces, MaxParams)}

\* Command tokens: every spelling of the named table in upper, lower and
\* mixed case, every three-digit token, runs of letters up to MaxLetters, the
\* tokens the tests and the documentation name, every mix of case of the
\* spellings up to MaxMixLen letters, and every token over a small
\* alphabet up to MaxTokenLen; parameter counts up to MaxCommandParams.
MaxTokenLen == 4
MaxLetters == 13
MaxMixLen == 5
MaxCommandParams == 9
TokenAlphabet == {Ord("a"), Ord("Z"), Ord("1"), NUL, NonUtf8Byte}
ToAsciiLowercase(b) == IF IsAsciiUppercase(b) THEN b + 32 ELSE b
LowerCased(s) == [i \in 1..Len(s) |-> ToAsciiLowercase(s[i])]
MixedCased(s) == [i \in 1..Len(s) |-> IF i % 2 = 0 THEN ToAsciiLowercase(s[i]) ELSE s[i]]
\* Every mix of upper and lower case of a spelling.
CaseMixes(name) ==
    {[i \in 1..Len(name) |-> IF i \in lower THEN ToAsciiLowercase(name[i]) ELSE name[i]] :
        lower \in SUBSET (1..Len(name))}
NamedSpellings ==
    UNION {{e[1], LowerCased(e[1]), MixedCased(e[1])} : e \in NamedTable}
        \cup UNION {CaseMixes(e[1]) : e \in {x \in NamedTable : Len(x[1]) <= MaxMixLen}}
ThreeDigitTokens == [1..3 -> {Ord(Digits[i]) : i \in 1..10}]
LetterRuns == {[i \in 1..k |-> Ord("Z")] : k \in 1..MaxLetters}
ExampleTokens ==
    {Bytes(<<"3", "0", "2", "7">>), Bytes(<<"1", "2", "a">>),
     Bytes(<<"I", "N", "F", "O", "0">>),
     Bytes(<<"E", "X", "C", "E", "L", "L", "E", "N", "T">>),
     Bytes(<<"A", "U", "T", "H", "E", "N", "T", "I", "C", "A", "T", "E", "X">>)}
CommandInputs ==
    NamedSpellings \cup ThreeDigitTokens \cup LetterRuns \cup ExampleTokens
        \cup SeqsUpTo(TokenAlphabet, MaxTokenLen)

\* Source spans: ':' followed by up to MaxSourceLen bytes of a small
\* alphabet, and the spans of at most one byte that lack the ':'.
MaxSourceLen == 5
SourceAlphabet == {Ord("n"), BANG, AT, DOT, COLON, DOLLAR, STAR, SP}
SourceInputs ==
    SeqsUpTo(SourceAlphabet, 1)
        \cup {<<COLON>> \o s : s \in SeqsUpTo(SourceAlphabet, MaxSourceLen)}

Unset == [kind |-> "Unset"]

(***************************************************************************)
(* IrcMsg::parse applied to every bounded message, then its Display form   *)
(* parsed again.                                                           *)
(***************************************************************************)
Init ==
    /\ input \in MsgInputs
    /\ pc = "start"
    /\ parsed = Unset
    /\ target = 0
    /\ extracted = Unset
    /\ rendered = <<>>
    /\ reparsed = Unset
    /\ utf8_only = Unset
    /\ stripped = Unset

DoParse ==
    /\ pc = "start"
    /\ parsed' = IrcMsgParse(input)
    /\ pc' = "parsed"
    /\ UNCHANGED <<input, target, extracted, rendered, reparsed, utf8_only, stripped>>

DoDisplay ==
    /\ pc = "parsed"
    /\ parsed.kind = "Ok"
    /\ rendered' = DisplayIrcMsg(parsed)
    /\ pc' = "displayed"
    /\ UNCHANGED <<input, parsed, target, extracted, reparsed, utf8_only, stripped>>

DoParseDisplayed ==
    /\ pc = "displayed"
    /\ reparsed' = IrcMsgParse(rendered)
    /\ pc' = "reparsed"
    /\ UNCHANGED <<input, parsed, target, extracted, rendered, utf8_only, stripped>>

DoParseUtf8Only ==
    /\ pc = "parsed"
    /\ utf8_only' = IrcMsgParseUtf8Only(input)
    /\ pc' = "utf8_parsed"
    /\ UNCHANGED <<input, parsed, target, extracted, rendered, reparsed, stripped>>

\* strip_tags on the parsed message, and again on its own result.
DoStripTags ==
    /\ \/ pc = "parsed" /\ parsed.kind = "Ok" /\ stripped' = StripTags(parsed)
       \/ pc = "stripped" /\ stripped' = StripTags(stripped)
    /\ pc' = IF pc = "parsed" THEN "stripped" ELSE "stripped_twice"
    /\ UNCHANGED <<input, parsed, target, extracted, rendered, reparsed, utf8_only>>

Next == DoParse \/ DoDisplay \/ DoParseDisplayed \/ DoParseUtf8Only \/ DoStripTags

Spec == Init /\ [][Next]_vars

(***************************************************************************)
(* Parameters::parse and Parameters::extract_specific applied to every     *)
(* bounded span.                                                           *)
(***************************************************************************)
InitParameters ==
    /\ input \in ParamInputs
    /\ pc = "start"
    /\ parsed = Unset
    /\ target = 0
    /\ extracted = Unset
    /\ rendered = <<>>
    /\ reparsed = Unset
    /\ utf8_only = Unset
    /\ stripped = Unset

DoParametersParse ==
    /\ pc = "start"
    /\ parsed' = ParametersParse(input)
    /\ pc' = "parsed"
    /\ UNCHANGED <<input, target, extracted, rendered, reparsed, utf8_only, stripped>>

DoParametersExtract ==
    /\ pc = "parsed"
    /\ parsed.kind = "Some"
    /\ \E i \in 0..(parsed.amount + 1) :
        /\ target' = i
        /\ extracted' = ParametersExtractSpecific(parsed, i)
    /\ pc' = "extracted"
    /\ UNCHANGED <<input, parsed, rendered, reparsed, utf8_only, stripped>>

NextParameters == DoParametersParse \/ DoParametersExtract

SpecParameters == InitParameters /\ [][NextParameters]_vars

(***************************************************************************)
(* Tags::parse and Tags::extract_specific applied to every bounded span.   *)
(***************************************************************************)
InitTags ==
    /\ input \in TagInputs
    /\ pc = "start"
    /\ parsed = Unset
    /\ target = 0
    /\ extracted = Unset
    /\ rendered = <<>>
    /\ reparsed = Unset
    /\ utf8_only = Unset
    /\ stripped = Unset

DoTagsParse ==
    /\ pc = "start"
    /\ parsed' = TagsParse(input)
    /\ pc' = "parsed"
    /\ UNCHANGED <<input, target, extracted, rendered, reparsed, utf8_only, stripped>>

DoTagsExtract ==
    /\ pc = "parsed"
    /\ parsed.kind = "Ok"
    /\ \E i \in 0..(parsed.amount + 1) :
        /\ target' = i
        /\ extracted' = TagsExtractSpecific(parsed, i)
    /\ pc' = "extracted"
    /\ UNCHANGED <<input, parsed, rendered, reparsed, utf8_only, stripped>>

NextTags == DoTagsParse \/ DoTagsExtract

SpecTags == InitTags /\ [][NextTags]_vars

(***************************************************************************)
(* Command::parse applied to every bounded token with every bounded        *)
(* parameter count (kept in target).                                       *)
(***************************************************************************)
InitCommand ==
    /\ input \in CommandInputs
    /\ pc = "start"
    /\ parsed = Unset
    /\ target = 0
    /\ extracted = Unset
    /\ rendered = <<>>
    /\ reparsed = Unset
    /\ utf8_only = Unset
    /\ stripped = Unset

DoCommandParse ==
    /\ pc = "start"
    /\ \E params_amount \in 0..MaxCommandParams :
        /\ target' = params_amount
        /\ parsed' = CommandParse(input, params_amount)
    /\ pc' = "parsed"
    /\ UNCHANGED <<input, extracted, rendered, reparsed, utf8_only, stripped>>

NextCommand == DoCommandParse

SpecCommand == InitCommand /\ [][NextCommand]_vars

(***************************************************************************)
(* Source::parse applied to every bounded span.                            *)
(***************************************************************************)
InitSource ==
    /\ input \in SourceInputs
    /\ pc = "start"
    /\ parsed = Unset
    /\ target = 0
    /\ extracted = Unset
    /\ rendered = <<>>
    /\ reparsed = Unset
    /\ utf8_only = Unset
    /\ stripped = Unset

DoSourceParse ==
    /\ pc = "start"
    /\ parsed' = SourceParse(input)
    /\ pc' = "parsed"
    /\ UNCHANGED <<input, target, extracted, rendered, reparsed, utf8_only, stripped>>

NextSource == DoSourceParse

SpecSource == InitSource /\ [][NextSource]_vars

(***************************************************************************)
(* The IrcFmtByte operations applied to bounded text.  reparsed holds the  *)
(* results of count_fmt_bytes and contains_irc_formatting, target and      *)
(* extracted the nth asked of find_nth_fmt_byte_and_position and its       *)
(* result, parsed the result of split_at_first_fmt_byte.                   *)
(***************************************************************************)
\* Text of at most MaxFmtLen bytes with three of the formatting bytes.
MaxFmtLen == 4
FmtAlphabet == {2, 3, 31, Ord("1"), COMMA, Ord("x")}

\* A colour marker with at most MaxColourLen bytes behind it.
MaxColourLen == 6
ColourAlphabet == {Ord("1"), Ord("2"), COMMA, Ord("x")}
ColourInputs ==
    {before \o <<3>> \o s :
        before \in {<<>>, <<Ord("x")>>}, s \in SeqsUpTo(ColourAlphabet, MaxColourLen)}

\* Six hex digits, their prefixes, and the six with one byte that is not a
\* hex digit.
HexDigits == Bytes(<<"1", "a", "F", "0", "c", "9">>)
HexWindows ==
    {SplitLeft(HexDigits, k) : k \in 0..HexWidth}
        \cup {[HexDigits EXCEPT ![i] = b] :
                i \in 1..HexWidth, b \in {Ord("g"), Ord("G"), COLON}}

\* A hex colour marker followed by two such windows with or without a
\* comma between them.
HexInputs ==
    {before \o <<4>> \o w1 \o sep \o w2 \o rest :
        before \in {<<>>, <<Ord("x")>>},
        w1 \in HexWindows,
        sep \in {<<>>, <<COMMA>>, <<Ord("x")>>},
        w2 \in HexWindows,
        rest \in {<<>>, <<Ord("x")>>, <<2>>}}

FmtInputs == SeqsUpTo(FmtAlphabet, MaxFmtLen) \cup ColourInputs \cup HexInputs

InitFormatting ==
    /\ input \in FmtInputs
    /\ pc = "start"
    /\ parsed = Unset
    /\ target = 0
    /\ extracted = Unset
    /\ rendered = <<>>
    /\ reparsed = Unset
    /\ utf8_only = Unset
    /\ stripped = Unset

DoCountFmtBytes ==
    /\ pc = "start"
    /\ reparsed' = [kind |-> "Counted", count |-> CountFmtBytes(input),
                    contains |-> ContainsIrcFormatting(input)]
    /\ pc' = "counted"
    /\ UNCHANGED <<input, parsed, target, extracted, rendered, utf8_only, stripped>>

DoFindNthFmtByte ==
    /\ pc = "counted"
    /\ \E nth \in 0..(reparsed.count + 1) :
        /\ target' = nth
        /\ extracted' = FindNthFmtByteAndPosition(input, nth)
    /\ pc' = "found"
    /\ UNCHANGED <<input, parsed, rendered, reparsed, utf8_only, stripped>>

DoSplitAtFirstFmtByte ==
    /\ pc = "start"
    /\ parsed' = SplitAtFirstFmtByte(input)
    /\ pc' = "split"
    /\ UNCHANGED <<input, target, extracted, rendered, reparsed, utf8_only, stripped>>

NextFormatting == DoCountFmtBytes \/ DoFindNthFmtByte \/ DoSplitAtFirstFmtByte

SpecFormatting == InitFormatting /\ [][NextFormatting]_vars

(***************************************************************************)
(* IrcCaseMapping::is_equivalent applied to bounded pairs of slices, in    *)
(* both orders and under each mapping.  input and rendered are the two     *)
(* slices, extracted holds the mapping and the two answers.                *)
(***************************************************************************)
MaxCaseLen == 2
CaseAlphabet ==
    {Ord("b"), Ord("B"), Ord("o"), Ord("0"), LBRACE, LBRACKET, RBRACE, RBRACKET,
     PIPE, BACKSLASH, CARET, TILDE}

\* The bytes a byte is compared with: itself, the same letter in the other
\* case, its RFC 1459 partner, another letter and a digit.
Partners(b) ==
    {b, Ord("o"), Ord("0")}
        \cup (IF IsAsciiLowercase(b) THEN {b - 32} ELSE {})
        \cup (IF IsAsciiUppercase(b) THEN {b + 32} ELSE {})
        \cup {c \in CaseAlphabet : Rfc1459IsEquivalent(b, c, FALSE)}

\* The slices of the length of a slice with a partner at each position.
RECURSIVE SameLength(_)
SameLength(first) ==
    IF first = <<>> THEN {<<>>}
    ELSE {<<c>> \o rest : c \in Partners(Head(first)), rest \in SameLength(Tail(first))}

\* The slices compared with a slice: those, and one byte shorter or longer.
Compared(first) ==
    SameLength(first)
        \cup {first \o <<Ord("b")>>}
        \cup (IF first = <<>> THEN {} ELSE {SplitLeft(first, Len(first) - 1)})

InitCaseMapping ==
    /\ input \in SeqsUpTo(CaseAlphabet, MaxCaseLen)
    /\ rendered \in Compared(input)
    /\ pc = "start"
    /\ parsed = Unset
    /\ target = 0
    /\ extracted = Unset
    /\ reparsed = Unset
    /\ utf8_only = Unset
    /\ stripped = Unset

DoIsEquivalent ==
    /\ pc = "start"
    /\ \E mapping \in CaseMappings :
        extracted' = [kind |-> "Compared", mapping |-> mapping,
                      forward |-> IsEquivalent(mapping, input, rendered),
                      backward |-> IsEquivalent(mapping, rendered, input)]
    /\ pc' = "compared"
    /\ UNCHANGED <<input, parsed, target, rendered, reparsed, utf8_only, stripped>>

NextCaseMapping == DoIsEquivalent

SpecCaseMapping == InitCaseMapping /\ [][NextCaseMapping]_vars

(***************************************************************************)
(* ISupportToken::parse applied to bounded tokens, and ISupportToken::new  *)
(* applied to them as parameter with each set flag and a few values.       *)
(* parsed holds the result of parse, extracted the result of new and       *)
(* reparsed the set flag and the value new was given.                      *)
(***************************************************************************)
MaxISupportLen == 4
ISupportAlphabet == {Ord("A"), Ord("1"), Ord("a"), MINUS, EQUALS, NUL, NonUtf8Byte}
ISupportInputs == SeqsUpTo(ISupportAlphabet, MaxISupportLen)
ISupportValues ==
    {StrNone, StrSome(<<>>), StrSome(<<Ord("a")>>), StrSome(<<NUL>>),
     StrSome(<<EQUALS, MINUS>>)}

InitISupport ==
    /\ input \in ISupportInputs
    /\ pc = "start"
    /\ parsed = Unset
    /\ target = 0
    /\ extracted = Unset
    /\ rendered = <<>>
    /\ reparsed = Unset
    /\ utf8_only = Unset
    /\ stripped = Unset

DoISupportParse ==
    /\ pc = "start"
    /\ parsed' = ISupportParse(input)
    /\ pc' = "parsed"
    /\ UNCHANGED <<input, target, extracted, rendered, reparsed, utf8_only, stripped>>

\* The parameter of new is a &str, so only valid UTF-8 is handed to it.
DoISupportNew ==
    /\ pc = "start"
    /\ IsUtf8(input)
    /\ \E set \in BOOLEAN, value \in ISupportValues :
        /\ reparsed' = [kind |-> "Arguments", set |-> set, value |-> value]
        /\ extracted' = ISupportNew(set, input, value)
    /\ pc' = "created"
    /\ UNCHANGED <<input, parsed, target, rendered, utf8_only, stripped>>

NextISupport == DoISupportParse \/ DoISupportNew

SpecISupport == InitISupport /\ [][NextISupport]_vars

(***************************************************************************)
(* The parameters of a span, read off the grammar: a parameter that starts *)
(* with ':' is the trailing one and takes the rest of the span without the *)
(* ':'; any other parameter ends before the next space or at the end.      *)
(***************************************************************************)
RECURSIVE ParameterList(_)
ParameterList(s) ==
    IF Len(s) > 0 /\ s[1] = COLON THEN <<Tail(s)>>
    ELSE IF Offsets(s, SP) = {} THEN <<s>>
    ELSE LET sp == Min(Offsets(s, SP))
         IN <<SplitLeft(s, sp)>> \o ParameterList(SplitRight(s, sp + 1))

\* The offsets of the trailing markers of a span: a ':' at offset 0 or after a space.
TrailingMarkers(s) ==
    {i \in Offsets(s, COLON) : i = 0 \/ s[i] = SP}

\* The bytes NUL, CR and LF, which no parameter may hold.
InvalidParameterOffsets(s) == Offsets(s, NUL) \cup Offsets(s, CR) \cup Offsets(s, LF)

\* C4: extract_specific(i) is Some for i < count() and None for i >= count(),
\* i = count() included.
C4_ExtractSpecificMatchesCount ==
    pc = "extracted" =>
        /\ (target < parsed.amount => extracted.kind = "Some")
        /\ (target >= parsed.amount => extracted.kind = "None")

\* C6: for i < count(), extract_specific(i) is exactly the bytes of the i-th
\* parameter (the trailing one without its ':'), and extract_first and
\* extract_last are extract_specific(0) and extract_specific(count() - 1).
C6_ExtractSpecificReturnsParameter ==
    pc = "extracted" /\ target < parsed.amount =>
        /\ extracted = ExtractSome(ParameterList(input)[target + 1])
        /\ ParametersExtractFirst(parsed) = ExtractSome(ParameterList(input)[1])
        /\ ParametersExtractLast(parsed)
              = ExtractSome(ParameterList(input)[parsed.amount])

\* C7: an empty span gives None; a span with NUL, CR or LF gives InvalidByte
\* of the first such byte; any other span gives Some with count = 1 + the
\* number of spaces before the first trailing marker (all spaces if none).
C7_ParseCountsSpacesBeforeMarker ==
    pc = "parsed" =>
        IF Len(input) = 0 THEN parsed = ParametersNone
        ELSE IF InvalidParameterOffsets(input) # {}
        THEN parsed = ParametersErr(input[Min(InvalidParameterOffsets(input)) + 1])
        ELSE LET limit == IF TrailingMarkers(input) = {} THEN Len(input)
                          ELSE Min(TrailingMarkers(input))
             IN parsed = ParametersSome(
                    1 + Cardinality({i \in Offsets(input, SP) : i < limit}), input)

\* A span with two spaces before its trailing marker and a space after it.
C7_Witness ==
    /\ pc = "parsed"
    /\ parsed.kind = "Some"
    /\ parsed.amount = 3
    /\ TrailingMarkers(input) # {}
    /\ \E i \in Offsets(input, SP) : i > Min(TrailingMarkers(input))

(***************************************************************************)
(* The tags of a span, read off the grammar '@' seg (';' seg)* with        *)
(* seg = ['+'] [vendor '/'] key ['=' value].                               *)
(***************************************************************************)
\* The pieces of s between the occurrences of byte b.
RECURSIVE SplitOn(_, _)
SplitOn(s, b) ==
    IF Offsets(s, b) = {} THEN <<s>>
    ELSE LET at == Min(Offsets(s, b))
         IN <<SplitLeft(s, at)>> \o SplitOn(SplitRight(s, at + 1), b)

\* The semicolon-delimited segments of a tag span, after its leading '@'.
Segments(span) == SplitOn(Tail(span), SEMICOLON)

SegmentHasValue(seg) == Offsets(seg, EQUALS) # {}
\* The segment up to its first '=', and the text after that '='.
SegmentHead(seg) ==
    IF SegmentHasValue(seg) THEN SplitLeft(seg, Min(Offsets(seg, EQUALS))) ELSE seg
SegmentValue(seg) ==
    IF SegmentHasValue(seg) THEN SplitRight(seg, Min(Offsets(seg, EQUALS)) + 1) ELSE <<>>
\* The head without the client-only marker '+'.
SegmentName(seg) ==
    LET head == SegmentHead(seg)
    IN IF Len(head) > 0 /\ head[1] = PLUS THEN Tail(head) ELSE head
SegmentVendor(seg) ==
    LET name == SegmentName(seg)
    IN IF Offsets(name, SLASH) = {} THEN StrNone
       ELSE StrSome(SplitLeft(name, Min(Offsets(name, SLASH))))
SegmentKey(seg) ==
    LET name == SegmentName(seg)
    IN IF Offsets(name, SLASH) = {} THEN name
       ELSE SplitRight(name, Min(Offsets(name, SLASH)) + 1)

\* C5: Tags::extract_specific(i) is Some for i < count() and None for
\* i >= count(), i = count() included.
C5_TagsExtractSpecificMatchesCount ==
    pc = "extracted" =>
        /\ (target < parsed.amount => extracted.kind = "Some")
        /\ (target >= parsed.amount => extracted.kind = "None")

\* C8: for i < count(), extract_specific(i) decomposes the i-th segment, the
\* first and every later one alike: key_name after the optional '+' and
\* 'vendor/' up to the first '=' or the segment end, vendor the text before
\* '/', escaped_value Some(text after the first '=') when that text is not
\* empty and None when the segment has no '='.
C8_TagsExtractSpecificDecomposesSegment ==
    pc = "extracted" /\ target < parsed.amount =>
        LET seg == Segments(input)[target + 1]
        IN /\ extracted.kind = "Some"
           /\ extracted.key_name = SegmentKey(seg)
           /\ extracted.vendor = SegmentVendor(seg)
           /\ (SegmentValue(seg) # <<>>
                 => extracted.escaped_value = StrSome(SegmentValue(seg)))
           /\ (~SegmentHasValue(seg) => extracted.escaped_value = StrNone)

\* A span after '@' has an empty segment.
HasEmptySegment(span) == \E i \in 1..Len(Segments(span)) : Segments(span)[i] = <<>>

\* Some escaped value of the span holds NUL, LF, CR or space.
InvalidValueBytes(span) ==
    UNION {{SegmentValue(Segments(span)[i])[j] :
                j \in 1..Len(SegmentValue(Segments(span)[i]))} :
            i \in 1..Len(Segments(span))}
        \cap {0, 10, 13, 32}

\* C9: when Tags::parse returns Ok every segment has a non-empty key and
\* count() is the number of segments; a span with an empty segment is
\* rejected with EmptyKeyName.
C9_TagsCountIsSegmentsWithKeys ==
    pc = "parsed" /\ Len(input) > 1 /\ input[1] = AT =>
        /\ parsed.kind = "Ok" =>
              /\ parsed.amount = Len(Segments(input))
              /\ \A i \in 1..Len(Segments(input)) : SegmentKey(Segments(input)[i]) # <<>>
        /\ HasEmptySegment(input) /\ IsUtf8(input) /\ InvalidValueBytes(input) = {}
              => parsed = TagsErr("EmptyKeyName", 0)

\* C10: Tags::parse fails with InvalidEscapedValueByte when NUL, LF, CR or
\* space occurs anywhere in an escaped value, and never returns Tags whose
\* escaped values hold one of these bytes.
C10_TagsRejectInvalidValueBytes ==
    pc = "parsed" /\ Len(input) > 1 /\ input[1] = AT =>
        /\ parsed.kind = "Ok" => InvalidValueBytes(input) = {}
        /\ InvalidValueBytes(input) # {} /\ IsUtf8(input) /\ ~HasEmptySegment(input)
              => parsed.kind = "Err" /\ parsed.err = "InvalidEscapedValueByte"

(***************************************************************************)
(* The message assembler: the claims about IrcMsg::parse and Display.      *)
(***************************************************************************)
HasSpace(s) == Offsets(s, SP) # {}
\* The bytes of s before its first space (all of s when it has none).
BeforeSpace(s) == IF HasSpace(s) THEN SplitLeft(s, Min(Offsets(s, SP))) ELSE s
\* The bytes of s after its first space.
AfterSpace(s) == IF HasSpace(s) THEN SplitRight(s, Min(Offsets(s, SP)) + 1) ELSE <<>>
UpperCased(s) == [i \in 1..Len(s) |-> ToAsciiUppercase(s[i])]

\* C1: IrcMsg::parse returns Ok or Err on every input and never panics.
C1_ParseNeverPanics ==
    pc = "parsed" => parsed.kind \in {"Ok", "Err"}

\* C2: whenever IrcMsg::parse(x) is Ok(M), parsing the Display form of M
\* returns Ok(M') with M' equal to M in all four fields.
C2_RoundTrip ==
    pc = "reparsed" =>
        /\ reparsed.kind = "Ok"
        /\ reparsed.tags = parsed.tags
        /\ reparsed.source = parsed.source
        /\ reparsed.command = parsed.command
        /\ reparsed.parameters = parsed.parameters

\* C3: whenever IrcMsg::parse(x) succeeds, (a) tags is present exactly when
\* x[0] is '@' and its content is x before the first space; (b) source is
\* present exactly when the first byte after the tag block's space (or x[0]
\* without tags) is ':' and it is parsed from the bytes up to the next space;
\* (c) the command is parsed from the following space-free run; (d)
\* parameters is present exactly when a space follows the command token and
\* its content is every byte after that single space.
C3_Decomposition ==
    LET tagged == input[1] = AT
        after_tags == IF tagged THEN AfterSpace(input) ELSE input
        sourced == Len(after_tags) > 0 /\ after_tags[1] = COLON
        after_source == IF sourced THEN AfterSpace(after_tags) ELSE after_tags
    IN (pc = "parsed" /\ parsed.kind = "Ok") =>
        /\ parsed.tags.some = tagged
        /\ tagged => parsed.tags.value.content = BeforeSpace(input)
        /\ parsed.source.some = sourced
        /\ sourced => parsed.source.value = SourceParse(BeforeSpace(after_tags))
        /\ parsed.command.name = UpperCased(BeforeSpace(after_source))
        /\ (parsed.parameters.kind = "Some") = HasSpace(after_source)
        /\ HasSpace(after_source) =>
               parsed.parameters.content.bytes = AfterSpace(after_source)

\* A message with tags, a source, a command and two parameters, the first
\* of them empty (two spaces in a row), has been parsed.
C3_Witness ==
    /\ pc = "parsed"
    /\ parsed.kind = "Ok"
    /\ parsed.tags.some
    /\ parsed.source.some
    /\ parsed.parameters.kind = "Some"
    /\ parsed.parameters.amount = 2
    /\ parsed.parameters.content.bytes[1] = SP

\* C2 (amended): whenever x is valid UTF-8 and IrcMsg::parse(x) is Ok(M),
\* parsing the Display form of M returns Ok(M') with M' equal to M in all
\* four fields.
C2_RoundTripUtf8 ==
    (pc = "reparsed" /\ IsUtf8(input)) =>
        /\ reparsed.kind = "Ok"
        /\ reparsed.tags = parsed.tags
        /\ reparsed.source = parsed.source
        /\ reparsed.command = parsed.command
        /\ reparsed.parameters = parsed.parameters

\* A lower-case UTF-8 message with tags, a source and parameters has been
\* rendered (its command in upper case) and parsed again.
C2_Witness ==
    /\ pc = "reparsed"
    /\ IsUtf8(input)
    /\ rendered # input
    /\ parsed.tags.some
    /\ parsed.source.some
    /\ parsed.source.value.host.some
    /\ parsed.parameters.kind = "Some"
    /\ parsed.parameters.amount = 2

(***************************************************************************)
(* Command::parse: the claims about the command tables.                    *)
(***************************************************************************)
OnlyLetters(s) == \A i \in 1..Len(s) : IsAsciiUppercase(s[i]) \/ IsAsciiLowercase(s[i])
OnlyDigits(s) == \A i \in 1..Len(s) : IsAsciiDigit(s[i])
HasDigit(s) == \E i \in 1..Len(s) : IsAsciiDigit(s[i])
\* The offsets of the bytes of s that are not ASCII alphanumeric.
NotAlphanumericOffsets(s) == {i \in 0..(Len(s) - 1) : ~IsAsciiAlphanumeric(s[i + 1])}
\* The value of a token of decimal digits.
RECURSIVE TokenNumber(_)
TokenNumber(s) ==
    IF Len(s) = 0 THEN 0
    ELSE 10 * TokenNumber(SubSeq(s, 1, Len(s) - 1)) + (s[Len(s)] - Digit0)
\* The numerics listed with minimum m.
NumericsWithMinimum(m) ==
    CASE m = 1 -> NumericMin1 [] m = 2 -> NumericMin2 [] m = 3 -> NumericMin3
      [] m = 4 -> NumericMin4 [] m = 5 -> NumericMin5 [] m = 6 -> NumericMin6
      [] m = 7 -> NumericMin7 [] m = 8 -> NumericMin8 [] OTHER -> {}
\* Token s is listed with minimum m: a spelling of a named entry in any
\* case, or a three-digit numeric of the table.
ListedWithMinimum(s, m) ==
    \/ OnlyLetters(s) /\ \E e \in NamedTable : e[2] = m /\ UpperCased(s) = e[1]
    \/ Len(s) = 3 /\ OnlyDigits(s) /\ TokenNumber(s) \in NumericsWithMinimum(m)
Listed(s) == \E m \in 0..8 : ListedWithMinimum(s, m)
\* The minima the documentation names.
NamedMinima ==
    {<<Bytes(<<"P", "A", "S", "S">>), 1>>,
     <<Bytes(<<"P", "R", "I", "V", "M", "S", "G">>), 2>>,
     <<Bytes(<<"F", "A", "I", "L">>), 3>>,
     <<Bytes(<<"U", "S", "E", "R">>), 4>>,
     <<Bytes(<<"S", "E", "R", "V", "I", "C", "E">>), 6>>,
     <<Bytes(<<"3", "5", "2">>), 8>>,
     <<Bytes(<<"I", "N", "F", "O">>), 0>>}

\* C11: a token listed in the named table (in any case) or the numeric
\* table with minimum m fails with MinimumArgsRequired(m, token) when given
\* fewer than m parameters and succeeds otherwise; PASS needs 1, PRIVMSG 2,
\* FAIL 3, USER 4, SERVICE 6, 352 needs 8 and INFO none.
C11_MinimumArgsRequired ==
    pc = "parsed" =>
        /\ \A m \in 0..8 :
              ListedWithMinimum(input, m) =>
                  IF target < m
                  THEN parsed = CommandErr("MinimumArgsRequired", 0, m, input)
                  ELSE parsed.kind \in {"Named", "Numeric"}
        /\ \A e \in NamedMinima :
              input = e[1] => (parsed.kind \in {"Named", "Numeric"}) = (target >= e[2])

\* A mixed-case spelling of a command that needs two parameters was given
\* one, and the error names the minimum and the token as given.
C11_Witness ==
    /\ pc = "parsed"
    /\ ListedWithMinimum(input, 2)
    /\ input # UpperCased(input)
    /\ input # LowerCased(input)
    /\ target = 1
    /\ parsed.kind = "Err"
    /\ parsed.min = 2

\* C12: every spelling of a named entry, in any mix of case, given enough
\* parameters returns Named with the all-uppercase spelling; a recognised
\* three-digit token is returned verbatim as Numeric.
C12_NamedIsCanonicalUppercase ==
    pc = "parsed" =>
        \A m \in 0..8 :
            ListedWithMinimum(input, m) /\ target >= m =>
                IF OnlyLetters(input)
                THEN parsed = Named(UpperCased(input))
                ELSE parsed = Numeric(input)

\* A spelling in mixed case was returned in upper case.
C12_Witness ==
    /\ pc = "parsed"
    /\ parsed.kind = "Named"
    /\ input # UpperCased(input)
    /\ input # LowerCased(input)
    /\ parsed.name = UpperCased(input)

\* C13: a non-empty token of ASCII letters that matches no named entry
\* gives Err(UnhandledNamed(token)), whatever its length and for every
\* parameter count.
C13_UnmatchedLettersAreUnhandledNamed ==
    pc = "parsed" /\ Len(input) > 0 /\ OnlyLetters(input) /\ ~Listed(input) =>
        parsed = CommandErr("UnhandledNamed", 0, 0, input)

\* C14: an empty token gives EmptyInput; a token with a byte that is not
\* ASCII alphanumeric gives InvalidByte of the first such byte; a token of
\* exactly three digits gives Numeric when listed and UnhandledNumeric
\* otherwise; any other token with a digit gives NumberInNamedCommand;
\* Numeric is returned for three digits only.
C14_Classification ==
    pc = "parsed" =>
        /\ Len(input) = 0 => parsed = CommandErr("EmptyInput", 0, 0, <<>>)
        /\ NotAlphanumericOffsets(input) # {} =>
              parsed = CommandErr("InvalidByte",
                                  input[Min(NotAlphanumericOffsets(input)) + 1], 0, <<>>)
        /\ Len(input) = 3 /\ OnlyDigits(input) =>
              IF Listed(input)
              THEN parsed = Numeric(input)
              ELSE parsed = CommandErr("UnhandledNumeric", 0, 0, input)
        /\ NotAlphanumericOffsets(input) = {} /\ HasDigit(input)
              /\ ~(Len(input) = 3 /\ OnlyDigits(input)) =>
              parsed = CommandErr("NumberInNamedCommand", 0, 0, input)
        /\ parsed.kind = "Numeric" => Len(input) = 3 /\ OnlyDigits(input)

\* C14 (amended): as C14, a listed token of three digits giving Numeric
\* when the parameter count reaches its minimum and MinimumArgsRequired
\* when it does not.
C14_ClassificationWithMinimum ==
    pc = "parsed" =>
        /\ Len(input) = 0 => parsed = CommandErr("EmptyInput", 0, 0, <<>>)
        /\ NotAlphanumericOffsets(input) # {} =>
              parsed = CommandErr("InvalidByte",
                                  input[Min(NotAlphanumericOffsets(input)) + 1], 0, <<>>)
        /\ Len(input) = 3 /\ OnlyDigits(input) =>
              IF Listed(input)
              THEN \A m \in 1..8 :
                      ListedWithMinimum(input, m) =>
                          IF target >= m THEN parsed = Numeric(input)
                          ELSE parsed = CommandErr("MinimumArgsRequired", 0, m, input)
              ELSE parsed = CommandErr("UnhandledNumeric", 0, 0, input)
        /\ NotAlphanumericOffsets(input) = {} /\ HasDigit(input)
              /\ ~(Len(input) = 3 /\ OnlyDigits(input)) =>
              parsed = CommandErr("NumberInNamedCommand", 0, 0, input)
        /\ parsed.kind = "Numeric" => Len(input) = 3 /\ OnlyDigits(input)

\* A listed numeric that needs eight parameters was given seven, and
\* letters followed by a digit are not the case.
C14_Witness ==
    /\ pc = "parsed"
    /\ Len(input) = 3
    /\ OnlyDigits(input)
    /\ ListedWithMinimum(input, 8)
    /\ target = 7
    /\ parsed.kind = "Err"
    /\ parsed.err = "MinimumArgsRequired"

\* C15: the token 999 with one parameter gives an error.
C15_999IsAnError ==
    pc = "parsed" /\ input = Bytes(<<"9", "9", "9">>) /\ target = 1 =>
        parsed.kind = "Err"

(***************************************************************************)
(* Source::parse: a span read off the grammar ':' nick ['!' user]          *)
(* ['@' host], split at the first separators.                              *)
(***************************************************************************)
SeparatorOffsets(s) == Offsets(s, BANG) \cup Offsets(s, AT)
\* A '.' occurs before every '!' and '@' of s.
DotBeforeSeparators(s) ==
    \E i \in Offsets(s, DOT) : \A j \in SeparatorOffsets(s) : i < j
HasInvalidSourceByte(s) == \E i \in 1..Len(s) : s[i] \in {NUL, LF, CR, SP}
\* The nickname a span body stands for when split at its first '!' and the
\* first '@' after it, or at its first '@' when it has no '!'.
SplitAtFirstSeparators(s) ==
    IF Offsets(s, BANG) # {}
    THEN LET bang == Min(Offsets(s, BANG))
             after == SplitRight(s, bang + 1)
         IN IF Offsets(after, AT) # {}
            THEN Nickname(SplitLeft(s, bang),
                          ContentSome(SplitLeft(after, Min(Offsets(after, AT)))),
                          ContentSome(SplitRight(after, Min(Offsets(after, AT)) + 1)))
            ELSE Nickname(SplitLeft(s, bang), ContentSome(after), ContentNone)
    ELSE IF Offsets(s, AT) # {}
    THEN Nickname(SplitLeft(s, Min(Offsets(s, AT))), ContentNone,
                  ContentSome(SplitRight(s, Min(Offsets(s, AT)) + 1)))
    ELSE Nickname(s, ContentNone, ContentNone)
ValidNick(nick) ==
    /\ Len(nick) > 0
    /\ nick[1] \notin {DOLLAR, COLON}
    /\ \A i \in 1..Len(nick) : nick[i] \notin {SP, BANG, STAR, COMMA, 63, AT}
\* A nickname with a valid nick, and a non-empty user and host when present.
ValidNickname(n) ==
    /\ ValidNick(n.content.bytes)
    /\ n.user.some => n.user.content.bytes # <<>>
    /\ n.host.some => n.host.content.bytes # <<>>
\* The span is a nickname candidate: ':' first, no invalid byte, no '.'
\* before its first separator.
NicknameSpan(span) ==
    /\ Len(span) > 0
    /\ span[1] = COLON
    /\ ~HasInvalidSourceByte(Tail(span))
    /\ ~DotBeforeSeparators(Tail(span))

\* C16: a nickname source is split at the first separators: the nick ends
\* at the first '!', the user at the first '@' after it, the host is all
\* that follows; without '!' the first '@' ends the nick. Later '!' or '@'
\* bytes do not move these boundaries.
C16_SplitAtFirstSeparators ==
    pc = "parsed" /\ NicknameSpan(input) =>
        /\ ValidNickname(SplitAtFirstSeparators(Tail(input)))
              => parsed = SplitAtFirstSeparators(Tail(input))
        /\ parsed.kind = "Ok" => parsed = SplitAtFirstSeparators(Tail(input))

\* The spans the claim lists as rejected, with n for the names.
RejectedSpans ==
    {<<COLON>>, <<COLON, BANG>>, <<COLON, AT>>, <<COLON, BANG, AT>>,
     <<COLON, Ord("n"), BANG>>, <<COLON, Ord("n"), AT>>,
     <<COLON, Ord("n"), BANG, Ord("n"), AT>>}

\* C17: a nickname candidate span gives an error or a Nickname with a valid
\* nick and a non-empty user and host when present; an empty nick, user or
\* host always gives an error, as for ':', ':!', ':@', ':!@', ':dave!',
\* ':bob@' and ':bob!d@'.
C17_NicknameIsValidOrError ==
    pc = "parsed" /\ NicknameSpan(input) =>
        /\ \/ parsed.kind = "Err"
           \/ parsed.kind = "Ok" /\ parsed.origin = "Nickname" /\ ValidNickname(parsed)
        /\ input \in RejectedSpans => parsed.kind = "Err"

\* C18: when a '.' occurs before any '!' or '@' the result is Servername
\* holding the whole span after ':'; otherwise it is never Servername.
C18_ServernamePrecedence ==
    pc = "parsed" /\ Len(input) > 0 /\ input[1] = COLON =>
        IF DotBeforeSeparators(Tail(input))
        THEN parsed = Servername(Tail(input))
        ELSE ~(parsed.kind = "Ok" /\ parsed.origin = "Servername")

\* C18 (amended): for a span free of NUL, LF, CR and space, when a '.'
\* occurs before any '!' or '@' the result is Servername holding the whole
\* span after ':'; otherwise it is never Servername.
C18_ServernamePrecedenceOfValidBytes ==
    pc = "parsed" /\ Len(input) > 0 /\ input[1] = COLON
        /\ ~HasInvalidSourceByte(Tail(input)) =>
        IF DotBeforeSeparators(Tail(input))
        THEN parsed = Servername(Tail(input))
        ELSE ~(parsed.kind = "Ok" /\ parsed.origin = "Servername")

\* A span with a '.' and later a '!' and an '@' was parsed as a Servername.
C18_Witness ==
    /\ pc = "parsed"
    /\ parsed.kind = "Ok"
    /\ parsed.origin = "Servername"
    /\ Offsets(input, BANG) # {}
    /\ Offsets(input, AT) # {}
    /\ parsed.content.bytes = Tail(input)

(***************************************************************************)
(* parse_utf8_only and strip_tags.                                         *)
(***************************************************************************)
\* C19: parse_utf8_only(x) is Ok(M) exactly when parse(x) is Ok(M) and x is
\* valid UTF-8, NonUtf8Message exactly when parse(x) succeeds and x is not
\* valid UTF-8, and the error of parse(x) when parse(x) fails.
C19_ParseUtf8Only ==
    pc = "utf8_parsed" =>
        /\ utf8_only.kind = "Ok" <=> (parsed.kind = "Ok" /\ IsUtf8(input))
        /\ utf8_only.kind = "Ok" => utf8_only = parsed
        /\ utf8_only = IrcMsgErr("NonUtf8Message", Running)
              <=> (parsed.kind = "Ok" /\ ~IsUtf8(input))
        /\ parsed.kind = "Err" => utf8_only = parsed

\* A message that parses and is not valid UTF-8 was refused, and so was a
\* message that is not valid UTF-8 and does not parse.
C19_Witness ==
    /\ pc = "utf8_parsed"
    /\ ~IsUtf8(input)
    /\ parsed.kind = "Ok"
    /\ parsed.source.some
    /\ utf8_only.kind = "Err"
    /\ utf8_only.component = "NonUtf8Message"

\* C20: strip_tags returns a message without tags whose source, command and
\* parameters are those of the original; on a message without tags it
\* returns the message unchanged, so applying it twice equals applying it
\* once.
C20_StripTags ==
    pc \in {"stripped", "stripped_twice"} =>
        /\ ~stripped.tags.some
        /\ stripped.source = parsed.source
        /\ stripped.command = parsed.command
        /\ stripped.parameters = parsed.parameters
        /\ ~parsed.tags.some => stripped = parsed

\* The tags of a message with tags, a source and parameters were stripped,
\* and stripped again.
C20_Witness ==
    /\ pc = "stripped_twice"
    /\ parsed.tags.some
    /\ parsed.tags.value.amount = 2
    /\ parsed.source.some
    /\ parsed.parameters.kind = "Some"
    /\ ~stripped.tags.some

(***************************************************************************)
(* Formatting, read off the documentation of IrcFmtByte: the nine          *)
(* formatting bytes and the variant each one stands for.                   *)
(***************************************************************************)
FmtByteOf ==
    [Bold |-> 2, Colour |-> 3, HexColour |-> 4, Reset |-> 15, Monospace |-> 17,
     ReverseColour |-> 22, Italics |-> 29, Strikethrough |-> 30, Underline |-> 31]
FmtBytes == {FmtByteOf[v] : v \in DOMAIN FmtByteOf}

\* The offsets of the formatting bytes of a span.
FmtOffsets(s) == {i \in 0..(Len(s) - 1) : s[i + 1] \in FmtBytes}

\* The span starts with a formatting byte of the given variant after text
\* free of formatting bytes; FirstFmtRest is what follows that byte.
FirstFmtIs(s, variant) ==
    /\ FmtOffsets(s) # {}
    /\ s[Min(FmtOffsets(s)) + 1] = FmtByteOf[variant]
FirstFmtRest(s) == SplitRight(s, Min(FmtOffsets(s)) + 1)

\* C21: find_nth_fmt_byte_and_position(s, n) is Some exactly when
\* n < count_fmt_bytes(s); the position it returns is the index of the
\* (n+1)-th formatting byte of s and the variant is the one of that byte;
\* contains_irc_formatting(s) holds exactly when count_fmt_bytes(s) > 0.
C21_FindNthMatchesCount ==
    pc = "found" =>
        /\ extracted.some <=> target < reparsed.count
        /\ extracted.some =>
            /\ extracted.index \in FmtOffsets(input)
            /\ Cardinality({j \in FmtOffsets(input) : j < extracted.index}) = target
            /\ extracted.fb \in DOMAIN FmtByteOf
            /\ FmtByteOf[extracted.fb] = input[extracted.index + 1]
        /\ reparsed.contains <=> reparsed.count > 0

\* The second of three formatting bytes is found behind some text.
C21_Witness ==
    /\ pc = "found"
    /\ reparsed.count = 3
    /\ target = 1
    /\ extracted.some
    /\ extracted.fb = "Colour"
    /\ extracted.index = 2

\* The number of digits, at most two, a span starts with.
DigitRun(s) ==
    IF Len(s) >= 2 /\ IsAsciiDigit(s[1]) /\ IsAsciiDigit(s[2]) THEN 2
    ELSE IF Len(s) >= 1 /\ IsAsciiDigit(s[1]) THEN 1
    ELSE 0

\* The colour payload at the start of the text behind a colour marker, as
\* foreground[,background] of one or two digits each, and the text left.
ColourPayload(a) ==
    LET fg == DigitRun(a)
        behind == SplitRight(a, fg)
        has_bg == Len(behind) >= 2 /\ behind[1] = COMMA /\ IsAsciiDigit(behind[2])
        bg == DigitRun(SplitRight(behind, 1))
    IN IF fg = 0 THEN [colours |-> NoColours, after |-> OptPart(a)]
       ELSE IF has_bg
       THEN [colours |-> Colours(SplitLeft(a, fg), StrSome(SubSeq(behind, 2, 1 + bg))),
             after |-> OptPart(SplitRight(behind, 1 + bg))]
       ELSE [colours |-> Colours(SplitLeft(a, fg), StrNone),
             after |-> OptPart(behind)]

\* C22: when the first formatting byte is Colour, split_at_first_fmt_byte
\* returns a payload exactly when a digit follows the marker: the foreground
\* is the longest run of one or two digits, a background is present exactly
\* when ',' and a digit follow the foreground and is the longest run of one
\* or two digits behind the comma, and the text-after starts right behind
\* the payload whatever comes next; without a digit behind the marker there
\* is no payload and the text-after is everything behind the marker.
C22_ColourPayload ==
    (pc = "split" /\ FirstFmtIs(input, "Colour")) =>
        /\ parsed.kind = "Some"
        /\ parsed.fb = "Colour"
        /\ parsed.colours = ColourPayload(FirstFmtRest(input)).colours
        /\ parsed.after = ColourPayload(FirstFmtRest(input)).after

\* The six hex digits a span starts with, if it does.
StartsWithHex(s) ==
    Len(s) >= HexWidth /\ \A i \in 1..HexWidth : IsAsciiHexdigit(s[i])

\* The hex payload at the start of the text behind a hex colour marker.
HexPayload(a) ==
    LET behind == SplitRight(a, HexWidth)
        has_bg == Len(behind) >= 1 /\ behind[1] = COMMA
                    /\ StartsWithHex(SplitRight(behind, 1))
    IN IF ~StartsWithHex(a) THEN [colours |-> NoColours, after |-> OptPart(a)]
       ELSE IF has_bg
       THEN [colours |-> Colours(SplitLeft(a, HexWidth),
                                 StrSome(SubSeq(behind, 2, HexWidth + 1))),
             after |-> OptPart(SplitRight(behind, HexWidth + 1))]
       ELSE [colours |-> Colours(SplitLeft(a, HexWidth), StrNone),
             after |-> OptPart(behind)]

\* C23: when the first formatting byte is HexColour, the foreground is
\* present exactly when the six bytes behind the marker are all hex digits,
\* the background exactly when in addition a ',' and six more hex digits
\* follow, and the text-after starts behind the last colour consumed (a ','
\* without six hex digits behind it stays in the text-after); when the first
\* six bytes are missing or not all hex there is no colour and the
\* text-after is everything behind the marker.
C23_HexColourPayload ==
    (pc = "split" /\ FirstFmtIs(input, "HexColour")) =>
        /\ parsed.kind = "Some"
        /\ parsed.fb = "HexColour"
        /\ parsed.colours = HexPayload(FirstFmtRest(input)).colours
        /\ parsed.after = HexPayload(FirstFmtRest(input)).after

\* Two hex colours are split off text on both sides.
C23_Witness ==
    /\ pc = "split"
    /\ FirstFmtIs(input, "HexColour")
    /\ parsed.before.some
    /\ parsed.colours.some
    /\ parsed.colours.background.some
    /\ parsed.after.some

\* The bytes of the parts split_at_first_fmt_byte returned, put back in order.
Rejoined(r) ==
    r.before.bytes
        \o (IF r.fb = "" THEN <<>> ELSE <<FmtByteOf[r.fb]>>)
        \o r.colours.foreground
        \o (IF r.colours.background.some
            THEN <<COMMA>> \o r.colours.background.bytes
            ELSE <<>>)
        \o r.after.bytes

\* C29: split_at_first_fmt_byte loses and invents no byte: for a non-empty
\* input the text-before, the marker byte, the foreground, ',' and the
\* background when one is returned, and the text-after give back the input;
\* the text-before holds no formatting byte, and an input without a
\* formatting byte comes back as (Some(input), None, None, None).
C29_SplitLosesNoByte ==
    (pc = "split" /\ input # <<>>) =>
        /\ parsed.kind = "Some"
        /\ Rejoined(parsed) = input
        /\ FmtOffsets(parsed.before.bytes) = {}
        /\ FmtOffsets(input) = {} =>
            parsed = SplitSome(StrSome(input), "", NoColours, StrNone)

\* A colour marker between text with both colours behind it.
C29_Witness ==
    /\ pc = "split"
    /\ parsed.kind = "Some"
    /\ parsed.before.some
    /\ parsed.fb = "Colour"
    /\ parsed.colours.some
    /\ parsed.colours.background.some
    /\ parsed.after.some

(***************************************************************************)
(* Case mapping, read off the documentation of IrcCaseMapping.             *)
(***************************************************************************)
\* Two bytes are the same ASCII letter in different case.
SameLetterOtherCase(a, b) ==
    \/ IsAsciiLowercase(a) /\ b = a - 32
    \/ IsAsciiUppercase(a) /\ b = a + 32

\* The pairs the RFC 1459 mappings add, in either order.
Rfc1459Pairs == {{LBRACE, LBRACKET}, {RBRACE, RBRACKET}, {PIPE, BACKSLASH}}
Rfc1459OnlyPairs == {{CARET, TILDE}}

EquivalentBytes(mapping, a, b) ==
    \/ a = b
    \/ SameLetterOtherCase(a, b)
    \/ mapping \in {"Rfc1459", "Rfc1459Strict"} /\ {a, b} \in Rfc1459Pairs
    \/ mapping = "Rfc1459" /\ {a, b} \in Rfc1459OnlyPairs

EquivalentSlices(mapping, first, second) ==
    /\ Len(first) = Len(second)
    /\ \A i \in 1..Len(first) : EquivalentBytes(mapping, first[i], second[i])

\* C24: is_equivalent(a, b) is true exactly when a and b have the same
\* length and at every position the bytes are equal, the same ASCII letter
\* in different case, one of the pairs '{'/'[', '}'/']', '|'/'\' under
\* Rfc1459 and Rfc1459Strict, or the pair '^'/'~' under Rfc1459 only.
C24_IsEquivalent ==
    pc = "compared" =>
        extracted.forward = EquivalentSlices(extracted.mapping, input, rendered)

\* C25: is_equivalent is symmetric under each of the three mappings, and
\* slices of different length are never equivalent.
C25_IsEquivalentSymmetric ==
    pc = "compared" =>
        /\ extracted.forward = extracted.backward
        /\ Len(input) # Len(rendered) => ~extracted.forward

\* Two different slices are found equivalent in both orders.
C25_Witness ==
    /\ pc = "compared"
    /\ extracted.mapping = "Rfc1459"
    /\ input = <<CARET, LBRACE>>
    /\ rendered = <<TILDE, LBRACKET>>
    /\ extracted.forward
    /\ extracted.backward

\* C26: is_client_only_tag is false for every extracted tag without a
\* vendor, and true only for a tag whose segment starts with '+' before a
\* vendor; a '+' inside the key name or the escaped value does not set it.
C26_ClientOnlyNeedsVendor ==
    (pc = "extracted" /\ extracted.kind = "Some") =>
        /\ ~extracted.vendor.some => ~IsClientOnlyTag(extracted)
        /\ IsClientOnlyTag(extracted) =>
            /\ target < Len(Segments(input))
            /\ Segments(input)[target + 1] # <<>>
            /\ Segments(input)[target + 1][1] = PLUS
            /\ SegmentVendor(Segments(input)[target + 1]).some

\* A well-formed tag block: '@' seg (';' seg)*, each seg a non-empty key or
\* key=value whose value holds no NUL, LF, CR or space, in valid UTF-8 of at
\* most 8190 bytes.
WellFormedTagBlock(span) ==
    /\ Len(span) >= 2
    /\ Len(span) <= MaxTagBytes
    /\ span[1] = AT
    /\ IsUtf8(span)
    /\ \A i \in 1..Len(Segments(span)) : SegmentHead(Segments(span)[i]) # <<>>
    /\ InvalidValueBytes(span) = {}

\* C27: Tags::parse accepts every well-formed tag block and counts its
\* segments, whatever the length of each segment, keys and values of a
\* single byte included, in any position.
C27_WellFormedTagsAreAccepted ==
    (pc = "parsed" /\ WellFormedTagBlock(input)) =>
        /\ parsed.kind = "Ok"
        /\ parsed.amount = Len(Segments(input))

\* C28: the unreachable!() of IrcMsg::parse is never executed: whenever the
\* scan has set parameters_started the span handed to Parameters::parse is
\* not empty, so a successful Parameters::parse there yields Some.
C28_UnreachableIsNeverExecuted ==
    pc = "parsed" => parsed # IrcMsgUnreachable

\* A token as the documentation of ISupportToken has it: a non-empty
\* parameter of ASCII uppercase letters and digits, and no '=' and no value
\* on a negated token.
WellFormedToken(t) ==
    /\ t.parameter.bytes # <<>>
    /\ \A i \in 1..Len(t.parameter.bytes) :
           IsAsciiUppercase(t.parameter.bytes[i]) \/ IsAsciiDigit(t.parameter.bytes[i])
    /\ ~t.set => (~t.equals_present /\ ~t.value.some)

\* The inputs of parse without a parameter or with '=' on a negated token:
\* nothing at all, '-' alone, '=' first, '-' with an '=' behind it.
BreaksToken(s) ==
    \/ s = <<>>
    \/ s = <<MINUS>>
    \/ s # <<>> /\ s[1] = EQUALS
    \/ Len(s) >= 2 /\ s[1] = MINUS /\ Offsets(s, EQUALS) # {}

\* C30: every token returned by ISupportToken::new or ISupportToken::parse
\* has a non-empty parameter of ASCII uppercase letters and digits, and a
\* negated token has neither '=' nor a value; an empty parameter, '-'
\* followed by nothing, '=' first and '-NAME=' are rejected with an error.
C30_TokensAreWellFormed ==
    /\ pc = "parsed" =>
        /\ parsed.kind \in {"Ok", "Err"}
        /\ parsed.kind = "Ok" => WellFormedToken(parsed)
        /\ BreaksToken(input) => parsed.kind = "Err"
    /\ pc = "created" =>
        /\ extracted.kind \in {"Ok", "Err"}
        /\ extracted.kind = "Ok" => WellFormedToken(extracted)
        /\ (input = <<>> \/ (~reparsed.set /\ reparsed.value.some))
              => extracted.kind = "Err"

====
